---- MODULE Spec2Model ----
(***************************************************************************)
(* The generalized MAKER decision engine of src/maker_base.py:             *)
(*   VotingAgent.get_vote          one agent, up to max_resamples attempts *)
(*   FirstToAheadByKVoting.vote    one voting round (first-to-ahead-by-k)  *)
(*   GeneralizedMAKER.solve        the step-by-step solver loop            *)
(* run against a DecomposableTask plugin.  One step of the model is one    *)
(* remote completion call with everything the engine does with its result, *)
(* or one iteration boundary of the solver loop.                           *)
(***************************************************************************)
EXTENDS Integers, Sequences, FiniteSets, TLC

\* ------------------------------------------------------------------ bounds
MaxK          == 2   \* MAKERConfig.k ranges over 1..MaxK
MaxAgents     == 4   \* max_agents_per_vote ranges over 1..MaxAgents (one-step tasks)
SolverAgents  == 2   \* max_agents_per_vote ranges over 1..SolverAgents (multi-step tasks)
MaxResamples  == 2   \* max_resamples ranges over 1..MaxResamples
MaxEst        == 2   \* estimate_steps() ranges over 1..MaxEst
MaxGoal       == 3   \* a task completes after 0..MaxGoal applied actions, or never
MaxNumSteps   == 9000 \* estimate_steps() ranges over 1..MaxNumSteps for the k-schedule
MaxDisks      == 5   \* Towers of Hanoi: num_disks ranges over 1..MaxDisks
MaxMoves      == 2   \* verify_solution: every move list of up to MaxMoves moves is tried
MaxUnreliableDisks == 1 \* agents that vote any legal move play 1..MaxUnreliableDisks disks

\* ------------------------------------------------------------- vocabulary
None    == "None"                    \* Python's None
Actions == {"a1", "a2", "a3"}        \* the values parse_action can produce
NoGoal  == -1                        \* is_complete() never becomes true
KNone   == 0                         \* MAKERConfig.k = None: auto-compute

Min(S) == CHOOSE x \in S : \A y \in S : x <= y
Max(S) == CHOOSE x \in S : \A y \in S : x >= y

VARIABLES
    cfg,             \* MAKERConfig: k, max_agents_per_vote, max_resamples
    task,            \* the plugin's fixed parameters: goal, est, single
    tstate,          \* the plugin's state: n applied actions, used in this cycle,
                     \*   and the actions it took, in order (applied)
    pc,              \* where solve() stands
    step,            \* solve: step
    max_steps,       \* solve: max_steps
    action_history,  \* solve: action_history
    stats,           \* GeneralizedMAKER.stats
    votes,           \* vote: the Counter, as its items in insertion order
    agents_sampled,  \* vote: agents_sampled
    attempt,         \* get_vote: the loop index of the agent being sampled
    action,          \* solve: the value vote() returned
    success,         \* solve: the first component of the returned tuple
    is_valid,        \* solve: what validate_solution() answered
    pollSet,         \* history: get_possible_actions() when the round began
    created,         \* history: VotingAgent objects built in this round
    log,             \* history: the votes cast in this round, in order
    audit,           \* history: what happened over the whole run, counted
    ordA, ordB,      \* replay: two delivery orders of one multiset of agent results
    ordCfg,          \* replay: k and max_agents_per_vote of the replayed round
    resA, resB,      \* replay: how vote() ends for each order
    given_k,         \* __init__: MAKERConfig.k as the caller configured it
    solvers,         \* __init__: the solvers built from the MAKERConfig, in order
    response,        \* should_flag: the response, as a sequence of characters
    verdict,         \* should_flag: the returned (flagged, reason)
    num_disks,       \* Towers of Hanoi: GameState.num_disks
    pegs,            \* Towers of Hanoi: GameState.pegs
    moves,           \* Towers of Hanoi: the list of moves applied or to verify
    move,            \* Towers of Hanoi: the move voted or tried last
    returned,        \* Towers of Hanoi: what apply_move or verify_solution returned
    oracle           \* Towers of Hanoi: how the agents of this run answer

vars == <<cfg, task, tstate, pc, step, max_steps, action_history, stats, votes,
          agents_sampled, attempt, action, success, is_valid, pollSet, created,
          log, audit, ordA, ordB, ordCfg, resA, resB, given_k, solvers, response,
          verdict, num_disks, pegs, moves, move, returned, oracle>>

replayVars == <<ordA, ordB, ordCfg, resA, resB>>

hanoiVars == <<num_disks, pegs, moves, move, returned, oracle>>

kVars == <<given_k, solvers>>

pureVars == <<kVars, response, verdict, hanoiVars>>

\* ------------------------------------------------- the task plugin (contract)
\* A plugin whose actions must each be taken once per cycle: the valid actions
\* are a function of the plugin's state, and only apply_action changes it.
is_complete == tstate.n = task.goal

\* The order in which a task with one legal action per step wants its actions.
ActionSeq == <<"a1", "a2", "a3">>

get_possible_actions ==
    IF is_complete THEN {}
    ELSE IF task.single THEN {ActionSeq[(tstate.n % Len(ActionSeq)) + 1]}
    ELSE Actions \ tstate.used

apply_action(a) ==
    [n       |-> tstate.n + 1,
     used    |-> IF tstate.used \cup {a} = Actions THEN {} ELSE tstate.used \cup {a},
     applied |-> Append(tstate.applied, a)]

estimate_steps == task.est

\* ------------------------------------------------------ collections.Counter
\* votes[action] += 1 : a new key goes to the end of the dict.
CounterIncr(v, a) ==
    IF \E i \in 1..Len(v) : v[i].action = a
    THEN [i \in 1..Len(v) |->
            IF v[i].action = a THEN [action |-> a, count |-> v[i].count + 1] ELSE v[i]]
    ELSE Append(v, [action |-> a, count |-> 1])

CountOf(v, a) ==
    IF \E i \in 1..Len(v) : v[i].action = a
    THEN v[CHOOSE i \in 1..Len(v) : v[i].action = a].count
    ELSE 0

\* sorted(items, key=count, reverse=True) is stable: among equal counts the
\* item inserted first comes first.
InsertStable(s, e) ==
    LET smaller == {i \in 1..Len(s) : s[i].count < e.count}
        p == IF smaller = {} THEN Len(s) + 1 ELSE Min(smaller)
    IN  SubSeq(s, 1, p - 1) \o <<e>> \o SubSeq(s, p, Len(s))

RECURSIVE SortedPrefix(_, _)
SortedPrefix(v, n) ==
    IF n = 0 THEN <<>> ELSE InsertStable(SortedPrefix(v, n - 1), v[n])

most_common(v) == SortedPrefix(v, Len(v))

\* Mutants: the first key of the dict; the last item with the highest count.
most_common_1_FirstKey(v) == v[1]

most_common_1_Last(v) ==
    LET top == Max({v[i].count : i \in 1..Len(v)})
    IN  v[Max({i \in 1..Len(v) : v[i].count = top})]

\* most_common(1) is max(items, key=count): the first item with the highest count.
most_common_1(v) ==
    LET top == Max({v[i].count : i \in 1..Len(v)})
    IN  v[Min({i \in 1..Len(v) : v[i].count = top})]

\* ------------------------------------------------ FirstToAheadByKVoting.vote
second_count(sorted_votes) ==
    IF Len(sorted_votes) > 1 THEN sorted_votes[2].count ELSE 0

\* Mutant: the lead must exceed k.
MarginReached_Strict(sorted_votes, k) ==
    sorted_votes[1].count - second_count(sorted_votes) > k

\* Mutant: the leader's own count is compared with k.
MarginReached_FirstToK(sorted_votes, k) ==
    sorted_votes[1].count >= k

\* leader_count - second_count >= k
MarginReached(sorted_votes, k) ==
    sorted_votes[1].count - second_count(sorted_votes) >= k

\* Mutant: the loop test is off by one.
KeepSampling_OffByOne(sampled, cap) == sampled <= cap

\* while agents_sampled < self.config.max_agents_per_vote
KeepSampling(sampled, cap) == sampled < cap

\* Mutant: no best-effort result after the loop.
Fallback_None(v) == None

\* after the loop: the most common action, or None when no vote was cast
Fallback(v) == IF v # <<>> THEN most_common_1(v).action ELSE None

\* Mutant: a None from get_vote is tallied like an action.
TallyVote_TalliesNone(v, sampled, ballot, c) ==
    LET v1     == CounterIncr(v, ballot)
        sorted == most_common(v1)
    IN  IF MarginReached(sorted, c.k)
        THEN [votes |-> v1, agents_sampled |-> sampled,
              returned |-> TRUE, leader |-> sorted[1].action]
        ELSE IF KeepSampling(sampled + 1, c.max_agents_per_vote)
        THEN [votes |-> v1, agents_sampled |-> sampled + 1,
              returned |-> FALSE, leader |-> None]
        ELSE [votes |-> v1, agents_sampled |-> sampled + 1,
              returned |-> TRUE, leader |-> Fallback(v1)]

\* Mutant: when the margin rule fires, the last item of the sorted tally is
\* returned.
TallyVote_ReturnsTrailing(v, sampled, ballot, c) ==
    LET v1     == IF ballot # None THEN CounterIncr(v, ballot) ELSE v
        sorted == most_common(v1)
    IN  IF ballot # None /\ v1 # <<>> /\ MarginReached(sorted, c.k)
        THEN [votes |-> v1, agents_sampled |-> sampled,
              returned |-> TRUE, leader |-> sorted[Len(sorted)].action]
        ELSE IF KeepSampling(sampled + 1, c.max_agents_per_vote)
        THEN [votes |-> v1, agents_sampled |-> sampled + 1,
              returned |-> FALSE, leader |-> None]
        ELSE [votes |-> v1, agents_sampled |-> sampled + 1,
              returned |-> TRUE, leader |-> Fallback(v1)]

\* One iteration of the while loop, from the value get_vote returned: the
\* tally update, the margin test, agents_sampled += 1, and, when the loop
\* ends there, the lines after it.
TallyVote(v, sampled, ballot, c) ==
    LET v1     == IF ballot # None THEN CounterIncr(v, ballot) ELSE v
        sorted == most_common(v1)
    IN  IF ballot # None /\ v1 # <<>> /\ MarginReached(sorted, c.k)
        THEN [votes |-> v1, agents_sampled |-> sampled,
              returned |-> TRUE, leader |-> sorted[1].action]
        ELSE IF KeepSampling(sampled + 1, c.max_agents_per_vote)
        THEN [votes |-> v1, agents_sampled |-> sampled + 1,
              returned |-> FALSE, leader |-> None]
        ELSE [votes |-> v1, agents_sampled |-> sampled + 1,
              returned |-> TRUE, leader |-> Fallback(v1)]

\* vote() on a given sequence of agent results: results[i] is what the i-th
\* agent's get_vote returns (an action, or None).
RECURSIVE VoteOn(_, _, _, _)
VoteOn(results, v, sampled, c) ==
    IF ~KeepSampling(sampled, c.max_agents_per_vote) \/ sampled >= Len(results)
    THEN [votes |-> v, agents_sampled |-> sampled, returned |-> TRUE, leader |-> Fallback(v)]
    ELSE LET r == TallyVote(v, sampled, results[sampled + 1], c)
         IN  IF r.returned THEN r ELSE VoteOn(results, r.votes, r.agents_sampled, c)

vote(results, c) == VoteOn(results, <<>>, 0, c)

\* --------------------------------------------------------- VotingAgent.get_vote
\* What one completion call can come to: the call raises, the response is
\* red-flagged, parse_action gives None, or it gives an action.
Outcomes == {"error", "flagged", "unparsed"} \cup Actions

\* Mutant: the parsed action is not checked against the possible set.
Discarded_NoMembership(o, possible) == o \notin Actions

\* The attempt ends in `continue`.
Discarded(o, possible) == o \notin Actions \/ o \notin possible

\* Mutant: the agent tries once more than max_resamples.
MoreAttempts_OneExtra(att, max_resamples) == att < max_resamples

\* for attempt in range(max_resamples)
MoreAttempts(att, max_resamples) == att + 1 < max_resamples

\* ------------------------------------------------------ GeneralizedMAKER.solve
\* Mutant: the safety limit is twice the estimate.
MaxSteps_Twice(est) == est * 2

\* max_steps = self.task.estimate_steps() * 3
MaxSteps(est) == est * 3

\* Mutant: the loop runs on a task that is already complete.
LoopContinues_IgnoresComplete(complete, st, limit) == st < limit

\* while not self.task.is_complete() and step < max_steps
LoopContinues(complete, st, limit) == ~complete /\ st < limit

\* Mutant: a complete task is a success whatever validate_solution() says.
SolveResult_IgnoresValidation(complete, valid) == complete

\* return is_valid, ... / return False, ...
SolveResult(complete, valid) == IF complete THEN valid ELSE FALSE

\* ------------------------------------------------------ RedFlagger.should_flag
\* A response is the sequence of its characters.
UpperCase == <<"A", "B", "C", "D", "E", "F", "G", "H", "I", "J", "K", "L", "M">> \o
             <<"N", "O", "P", "Q", "R", "S", "T", "U", "V", "W", "X", "Y", "Z">>
LowerCase == <<"a", "b", "c", "d", "e", "f", "g", "h", "i", "j", "k", "l", "m">> \o
             <<"n", "o", "p", "q", "r", "s", "t", "u", "v", "w", "x", "y", "z">>
Digits    == <<"0", "1", "2", "3", "4", "5", "6", "7", "8", "9">>
Spaces    == {" ", "\t", "\n", "\r"}

\* Mutant: the response is searched as it is written.
lower_AsWritten(r) == r

\* str.lower()
lower(r) ==
    [i \in 1..Len(r) |->
        IF \E j \in 1..Len(UpperCase) : UpperCase[j] = r[i]
        THEN LowerCase[CHOOSE j \in 1..Len(UpperCase) : UpperCase[j] = r[i]]
        ELSE r[i]]

\* str.strip()
strip(r) ==
    LET keep == {i \in 1..Len(r) : r[i] \notin Spaces}
    IN  IF keep = {} THEN <<>> ELSE SubSeq(r, Min(keep), Max(keep))

\* pattern in text
Contains(text, pattern) ==
    \E i \in 1..(Len(text) - Len(pattern) + 1) :
        SubSeq(text, i, i + Len(pattern) - 1) = pattern

failure_patterns == <<
    <<"i", " ", "c", "a", "n", "n", "o", "t">>,
    <<"i", " ", "c", "a", "n", "'", "t">>,
    <<"i", " ", "d", "o", "n", "'", "t", " ", "k", "n", "o", "w">>,
    <<"i", "'", "m", " ", "s", "o", "r", "r", "y">>,
    <<"i", " ", "a", "p", "o", "l", "o", "g", "i", "z", "e">>,
    <<"e", "r", "r", "o", "r", ":">>,
    <<"i", "n", "v", "a", "l", "i", "d", ":">> >>

\* What a returned reason says: its text and the number it quotes.
Reason(kind, arg) == [kind |-> kind, arg |-> arg]

IsDigit(c) == \E d \in 1..Len(Digits) : Digits[d] = c
DigitVal(c) == (CHOOSE d \in 1..Len(Digits) : Digits[d] = c) - 1

RECURSIVE IntOf(_)
\* int(digits)
IntOf(ds) ==
    IF ds = <<>> THEN 0 ELSE 10 * IntOf(SubSeq(ds, 1, Len(ds) - 1)) + DigitVal(ds[Len(ds)])

\* re.findall(r'\d', response)
FindDigits(r) == SelectSeq(r, IsDigit)

\* re.findall(r'\d+', response)[0], for a response with a digit
FirstNumber(r) ==
    LET from == Min({i \in 1..Len(r) : IsDigit(r[i])})
        to   == Max({j \in from..Len(r) : \A m \in from..j : IsDigit(r[m])})
    IN  SubSeq(r, from, to)

\* example_sudoku.py: the response holds exactly one digit, 1-9
validate_sudoku_response(r) ==
    LET numbers == FindDigits(r)
    IN  IF numbers = <<>> THEN [ok |-> FALSE, reason |-> Reason("No number found in response", 0)]
        ELSE IF Len(numbers) > 1
             THEN [ok |-> FALSE, reason |-> Reason("Multiple numbers in response", 0)]
        ELSE IF DigitVal(numbers[1]) < 1 \/ DigitVal(numbers[1]) > 9
             THEN [ok |-> FALSE,
                   reason |-> Reason("Number out of range (1-9)", DigitVal(numbers[1]))]
        ELSE [ok |-> TRUE, reason |-> Reason("", 0)]

\* rubiks_cube_maker_solver.py: the first number of the response is in 1-6
validate_move_choice(r) ==
    IF FindDigits(r) = <<>>
    THEN [ok |-> FALSE, reason |-> Reason("No number found in response", 0)]
    ELSE LET num == IntOf(FirstNumber(r))
         IN  IF num < 1 \/ num > 6
             THEN [ok |-> FALSE, reason |-> Reason("Number out of range (1-6)", num)]
             ELSE [ok |-> TRUE, reason |-> Reason("", 0)]

Validators == {"validate_sudoku_response", "validate_move_choice"}

\* validator(response, context)
Validate(validator, r) ==
    IF validator = "validate_sudoku_response" THEN validate_sudoku_response(r)
    ELSE validate_move_choice(r)

\* Mutant: no response is too short.
TooShort_Never(r, c) == FALSE

\* len(response) > self.config.max_response_length
TooLong(r, c) == Len(r) > c.max_response_length

\* len(response) < self.config.min_response_length
TooShort(r, c) == Len(r) < c.min_response_length

\* not response.strip()
Blank(r) == strip(r) = <<>>

\* The indices of the failure patterns found in the lowered response.
PatternsFound(r) ==
    {i \in 1..Len(failure_patterns) : Contains(lower(r), failure_patterns[i])}

\* Mutant: the loop over the validators does not stop at the first rejection;
\* the last rejecting validator decides.
Rejecting_LastDecides(r, c) ==
    LET rej == {i \in 1..Len(c.custom_validators) : ~Validate(c.custom_validators[i], r).ok}
    IN  IF rej = {} THEN {} ELSE {Max(rej)}

\* The indices of the validators that reject the response.
Rejecting(r, c) ==
    {i \in 1..Len(c.custom_validators) : ~Validate(c.custom_validators[i], r).ok}

\* should_flag: the returned (flagged, reason), and how many custom validators
\* were called on the way (called).
should_flag(r, c) ==
    IF TooLong(r, c)
    THEN [flagged |-> TRUE, reason |-> Reason("Too long", Len(r)), called |-> 0]
    ELSE IF TooShort(r, c)
    THEN [flagged |-> TRUE, reason |-> Reason("Too short", Len(r)), called |-> 0]
    ELSE IF Blank(r)
    THEN [flagged |-> TRUE, reason |-> Reason("Empty response", 0), called |-> 0]
    ELSE IF PatternsFound(r) # {}
    THEN [flagged |-> TRUE, reason |-> Reason("Failure pattern", Min(PatternsFound(r))),
          called |-> 0]
    ELSE IF Rejecting(r, c) # {}
    THEN [flagged |-> TRUE,
          reason  |-> Validate(c.custom_validators[Min(Rejecting(r, c))], r).reason,
          called  |-> Min(Rejecting(r, c))]
    ELSE [flagged |-> FALSE, reason |-> Reason("", 0), called |-> Len(c.custom_validators)]

\* --------------------------------------- maker.py: RedFlagger.should_flag
\* str.upper()
upper(r) ==
    [i \in 1..Len(r) |->
        IF \E j \in 1..Len(LowerCase) : LowerCase[j] = r[i]
        THEN UpperCase[CHOOSE j \in 1..Len(LowerCase) : LowerCase[j] = r[i]]
        ELSE r[i]]

hanoi_failure_patterns == <<
    <<"I", " ", "c", "a", "n", "n", "o", "t">>,
    <<"I", " ", "c", "a", "n", "'", "t">>,
    <<"I", " ", "d", "o", "n", "'", "t", " ", "k", "n", "o", "w">>,
    <<"I", "'", "m", " ", "s", "o", "r", "r", "y">>,
    <<"I", " ", "a", "p", "o", "l", "o", "g", "i", "z", "e">>,
    <<"E", "r", "r", "o", "r", ":">>,
    <<"E", "R", "R", "O", "R", ":">> >>

\* The indices of the failure patterns whose lowered text is in the lowered
\* response.
HanoiPatternsFound(r) ==
    {i \in 1..Len(hanoi_failure_patterns) :
        Contains(lower(r), lower(hanoi_failure_patterns[i]))}

\* Mutant: the peg letters are looked for in the response as written.
PegNameFound_AsWritten(r) == \E i \in 1..Len(r) : r[i] \in {"A", "B", "C"}

\* any(char in response.upper() for char in ['A', 'B', 'C'])
PegNameFound(r) == \E i \in 1..Len(r) : upper(r)[i] \in {"A", "B", "C"}

\* response.count('\n')
NewlineCount(r) == Cardinality({i \in 1..Len(r) : r[i] = "\n"})

\* Mutant: five newlines are already too verbose.
TooVerbose_FiveNewlines(r) == NewlineCount(r) >= 5

\* response.count('\n') > 5
TooVerbose(r) == NewlineCount(r) > 5

\* should_flag of the Towers of Hanoi engine: the returned (flagged, reason);
\* it has no custom validators to call.
hanoi_should_flag(r, c) ==
    IF Len(r) > c.max_response_length
    THEN [flagged |-> TRUE, reason |-> Reason("Response too long", Len(r)), called |-> 0]
    ELSE IF Len(r) < c.min_response_length
    THEN [flagged |-> TRUE, reason |-> Reason("Response too short", Len(r)), called |-> 0]
    ELSE IF Blank(r)
    THEN [flagged |-> TRUE, reason |-> Reason("Empty response", 0), called |-> 0]
    ELSE IF HanoiPatternsFound(r) # {}
    THEN [flagged |-> TRUE,
          reason  |-> Reason("Failure pattern detected", Min(HanoiPatternsFound(r))),
          called  |-> 0]
    ELSE IF ~PegNameFound(r)
    THEN [flagged |-> TRUE,
          reason  |-> Reason("No peg names (A, B, C) found in response", 0), called |-> 0]
    ELSE IF TooVerbose(r)
    THEN [flagged |-> TRUE,
          reason  |-> Reason("Response too verbose (multiple lines)", 0), called |-> 0]
    ELSE [flagged |-> FALSE, reason |-> Reason("", 0), called |-> 0]

\* ------------------------------------------ towers_of_hanoi.py: GameState
\* The pegs of GameState: source A, auxiliary B, target C. A peg is the list
\* of its disks from the bottom to the top, a disk is its size.
PegNames == {"A", "B", "C"}

\* A peg name that is not a key of GameState.pegs.
UnknownPeg == "X"

\* A move is the pair (from_peg, to_peg); NoMove is Python's None.
NoMove == <<>>

\* GameState.__init__: list(range(num_disks, 0, -1)) on the source peg.
GameState(n) ==
    [p \in PegNames |-> IF p = "A" THEN [i \in 1..n |-> n + 1 - i] ELSE <<>>]

\* pegs[p][-1]
Top(peg) == peg[Len(peg)]

\* Mutant: any disk may be put on any disk.
is_valid_move_AnyDisk(s, from_peg, to_peg) ==
    IF from_peg \notin PegNames \/ to_peg \notin PegNames THEN FALSE
    ELSE s[from_peg] # <<>>

\* Mutant: the size test is the wrong way round.
is_valid_move_Larger(s, from_peg, to_peg) ==
    IF from_peg \notin PegNames \/ to_peg \notin PegNames THEN FALSE
    ELSE IF s[from_peg] = <<>> THEN FALSE
    ELSE IF s[to_peg] = <<>> THEN TRUE
    ELSE Top(s[from_peg]) > Top(s[to_peg])

\* GameState.is_valid_move
is_valid_move(s, from_peg, to_peg) ==
    IF from_peg \notin PegNames \/ to_peg \notin PegNames THEN FALSE
    ELSE IF s[from_peg] = <<>> THEN FALSE
    ELSE IF s[to_peg] = <<>> THEN TRUE
    ELSE Top(s[from_peg]) < Top(s[to_peg])

\* disk = pegs[from_peg].pop(); pegs[to_peg].append(disk)
PopAppend(s, from_peg, to_peg) ==
    LET popped == [s EXCEPT ![from_peg] = SubSeq(@, 1, Len(@) - 1)]
    IN  [popped EXCEPT ![to_peg] = Append(@, Top(s[from_peg]))]

\* GameState.apply_move: what it returns and the pegs it leaves.
apply_move(s, from_peg, to_peg) ==
    IF ~is_valid_move(s, from_peg, to_peg)
    THEN [returned |-> FALSE, pegs |-> s]
    ELSE [returned |-> TRUE, pegs |-> PopAppend(s, from_peg, to_peg)]

\* Mutant: the puzzle counts as solved once the source peg is empty.
is_solved_SourceEmpty(s, n) == s["A"] = <<>>

\* GameState.is_solved
is_solved(s, n) == Len(s["C"]) = n /\ s["A"] = <<>> /\ s["B"] = <<>>

\* Mutant: the two recursive calls do not swap the pegs.
RECURSIVE hanoi_NoSwap(_, _, _, _)
hanoi_NoSwap(n, src, tgt, aux) ==
    IF n = 1 THEN <<  <<src, tgt>>  >>
    ELSE hanoi_NoSwap(n - 1, src, tgt, aux) \o <<  <<src, tgt>>  >>
         \o hanoi_NoSwap(n - 1, src, tgt, aux)

\* get_optimal_solution: the inner function hanoi(n, src, tgt, aux)
RECURSIVE hanoi(_, _, _, _)
hanoi(n, src, tgt, aux) ==
    IF n = 1 THEN <<  <<src, tgt>>  >>
    ELSE hanoi(n - 1, src, aux, tgt) \o <<  <<src, tgt>>  >>
         \o hanoi(n - 1, aux, tgt, src)

get_optimal_solution(n) == hanoi(n, "A", "C", "B")

\* verify_solution's loop from move i on: the state when it stops, and whether
\* every move applied.
RECURSIVE ApplyAll(_, _, _)
ApplyAll(s, ms, i) ==
    IF i > Len(ms) THEN [applied |-> TRUE, pegs |-> s]
    ELSE LET r == apply_move(s, ms[i][1], ms[i][2])
         IN  IF ~r.returned THEN [applied |-> FALSE, pegs |-> r.pegs]
             ELSE ApplyAll(r.pegs, ms, i + 1)

\* Mutant: a sequence whose moves all apply is accepted.
verify_solution_AnyEnd(n, ms) == ApplyAll(GameState(n), ms, 1).applied

\* verify_solution: the success flag it returns.
verify_solution(n, ms) ==
    LET run == ApplyAll(GameState(n), ms, 1)
    IN  IF ~run.applied THEN FALSE
        ELSE IF ~is_solved(run.pegs, n) THEN FALSE
        ELSE TRUE

\* ------------------------------------------------------------ the k-schedule
\* ExpCeil[j] is the least integer n with ln(n) >= j, that is ceil(e^j).
ExpCeil == <<3, 8, 21, 55, 149, 404, 1097, 2981, 8104, 22027, 59875>>

\* int(math.log(n)) for 1 <= n < ExpCeil[Len(ExpCeil)]
FloorLn(n) == Cardinality({j \in 1..Len(ExpCeil) : ExpCeil[j] <= n})

\* Mutant: the thresholds are exclusive.
compute_k_Exclusive(num_steps) ==
    IF num_steps < 10 THEN 2
    ELSE IF num_steps < 100 THEN 3
    ELSE IF num_steps < 1000 THEN 4
    ELSE Max({3, FloorLn(num_steps) + 1})

\* GeneralizedMAKER._compute_k
compute_k(num_steps) ==
    IF num_steps <= 10 THEN 2
    ELSE IF num_steps <= 100 THEN 3
    ELSE IF num_steps <= 1000 THEN 4
    ELSE Max({3, FloorLn(num_steps) + 1})

\* MAKERConfig.compute_k_for_steps of the Towers of Hanoi engine
compute_k_for_steps(num_steps) ==
    IF num_steps <= 10 THEN 2
    ELSE IF num_steps <= 100 THEN 3
    ELSE IF num_steps <= 1000 THEN 4
    ELSE Max({3, FloorLn(num_steps) + 1})

\* Mutant: the schedule overrides a configured k.
AutoK_Always(k, estimated_steps) == compute_k(estimated_steps)

\* if self.config.k is None: self.config.k = self._compute_k(estimated_steps)
AutoK(k, estimated_steps) == IF k = KNone THEN compute_k(estimated_steps) ELSE k

\* -------------------------------------------------------------------- Init
Configs(maxAgents) ==
    [k : 1..MaxK, max_agents_per_vote : 1..maxAgents, max_resamples : 1..MaxResamples]

Tasks == [goal : (0..MaxGoal) \cup {NoGoal}, est : 1..MaxEst, single : {FALSE}]

\* A one-step task under every configuration, and every task under the
\* configurations with a small agent cap.
Scenarios ==
    (Configs(MaxAgents) \X {[goal |-> 1, est |-> 1, single |-> FALSE]}) \cup (Configs(SolverAgents) \X Tasks)

NotRun == [votes |-> <<>>, agents_sampled |-> 0, returned |-> FALSE, leader |-> None]

ReplayIdle ==
    /\ ordA = <<>> /\ ordB = <<>>
    /\ ordCfg = [k |-> 1, max_agents_per_vote |-> 1]
    /\ resA = NotRun /\ resB = NotRun

\* should_flag has not been called.
NotChecked == [flagged |-> FALSE, reason |-> Reason("", 0), called |-> 0]

\* No game of Towers of Hanoi is set up.
HanoiIdle ==
    /\ num_disks = 0
    /\ pegs = GameState(0)
    /\ moves = <<>>
    /\ move = NoMove
    /\ returned = FALSE
    /\ oracle = None

PureIdle ==
    /\ given_k = KNone
    /\ solvers = <<>>
    /\ response = <<>>
    /\ verdict = NotChecked
    /\ HanoiIdle

\* The audit of a run: voting rounds started, VotingAgent objects built,
\* responses the RedFlagger flagged, attempts get_vote discarded, steps that
\* ended in a break, and the outcome of the discarded attempt that the agent
\* being sampled follows with another one (last).  It is kept in the
\* specification SpecRun only (on).
NoAudit ==
    [on |-> FALSE, rounds |-> 0, agents |-> 0, flags |-> 0, discards |-> 0, failed |-> 0,
     last |-> None]

Counted(a, field, n) == IF a.on THEN [a EXCEPT ![field] = @ + n] ELSE a

\* One attempt with outcome o of an agent at loop index att.
Sampled(a, att, o, possible, max_resamples) ==
    LET counted ==
            Counted(Counted(Counted(a, "agents", IF att = 0 THEN 1 ELSE 0),
                            "flags", IF o = "flagged" THEN 1 ELSE 0),
                    "discards", IF Discarded(o, possible) THEN 1 ELSE 0)
    IN  IF a.on
        THEN [counted EXCEPT !.last =
                 IF Discarded(o, possible) /\ MoreAttempts(att, max_resamples)
                 THEN o ELSE None]
        ELSE a

\* GeneralizedMAKER.__init__ has run; solve() has not been called yet.
Init ==
    /\ \E sc \in Scenarios : cfg = sc[1] /\ task = sc[2]
    /\ tstate = [n |-> 0, used |-> {}, applied |-> <<>>]
    /\ pc = "start"
    /\ step = 0
    /\ max_steps = 0
    /\ action_history = <<>>
    /\ stats = [total_steps |-> 0, total_agents |-> 0, failed_steps |-> 0, red_flags |-> 0]
    /\ votes = <<>>
    /\ agents_sampled = 0
    /\ attempt = 0
    /\ action = None
    /\ success = FALSE
    /\ is_valid = FALSE
    /\ pollSet = {}
    /\ created = 0
    /\ log = <<>>
    /\ audit = NoAudit
    /\ ReplayIdle
    /\ PureIdle

\* ----------------------------------------------------------------- actions
\* solve(), up to the loop.
SolveStart ==
    /\ pc = "start"
    /\ action_history' = <<>>
    /\ step' = 0
    /\ max_steps' = MaxSteps(estimate_steps)
    /\ pc' = "loop"
    /\ UNCHANGED <<cfg, task, tstate, stats, votes, agents_sampled, attempt, action,
                   success, is_valid, pollSet, created, log, audit>>
    /\ UNCHANGED <<replayVars, pureVars>>

\* The loop test holds: the step is counted and vote(step) starts.
StepBegins ==
    /\ pc = "loop"
    /\ LoopContinues(is_complete, step, max_steps)
    /\ step' = step + 1
    /\ stats' = [stats EXCEPT !.total_steps = step + 1]
    /\ votes' = <<>>
    /\ agents_sampled' = 0
    /\ attempt' = 0
    /\ pollSet' = get_possible_actions
    /\ created' = 0
    /\ log' = <<>>
    /\ IF KeepSampling(0, cfg.max_agents_per_vote)
       THEN pc' = "vote" /\ action' = action
       ELSE pc' = "apply" /\ action' = Fallback(<<>>)
    /\ audit' = Counted(audit, "rounds", 1)
    /\ UNCHANGED <<cfg, task, tstate, max_steps, action_history, success, is_valid>>
    /\ UNCHANGED <<replayVars, pureVars>>

\* The loop test fails.
LoopEnds ==
    /\ pc = "loop"
    /\ ~LoopContinues(is_complete, step, max_steps)
    /\ pc' = "check"
    /\ UNCHANGED <<cfg, task, tstate, step, max_steps, action_history, stats, votes,
                   agents_sampled, attempt, action, success, is_valid, pollSet,
                   created, log, audit>>
    /\ UNCHANGED <<replayVars, pureVars>>

\* vote(): what the round does with the value get_vote returned.
AgentReturns(ballot) ==
    LET r == TallyVote(votes, agents_sampled, ballot, cfg)
    IN  /\ votes' = r.votes
        /\ agents_sampled' = r.agents_sampled
        /\ log' = IF ballot # None THEN Append(log, ballot) ELSE log
        /\ attempt' = 0
        /\ IF r.returned
           THEN pc' = "apply" /\ action' = r.leader
           ELSE pc' = "vote" /\ action' = action

\* Mutant: an exception of the completion call leaves get_vote, vote and solve.
Attempt_ErrorPropagates(o) ==
    /\ pc = "vote"
    /\ created' = IF attempt = 0 THEN created + 1 ELSE created
    /\ IF o = "error"
       THEN /\ pc' = "raised"
            /\ UNCHANGED <<votes, log, action, agents_sampled, attempt>>
       ELSE IF Discarded(o, get_possible_actions)
       THEN IF MoreAttempts(attempt, cfg.max_resamples)
            THEN /\ attempt' = attempt + 1
                 /\ UNCHANGED <<votes, log, action, pc, agents_sampled>>
            ELSE AgentReturns(None)
       ELSE AgentReturns(o)
    /\ audit' = Sampled(audit, attempt, o, get_possible_actions, cfg.max_resamples)
    /\ UNCHANGED <<cfg, task, tstate, step, max_steps, action_history, stats,
                   success, is_valid, pollSet>>
    /\ UNCHANGED <<replayVars, pureVars>>

\* Mutant: the agent applies its own usable vote to the task.
Attempt_AppliesVote(o) ==
    /\ pc = "vote"
    /\ created' = IF attempt = 0 THEN created + 1 ELSE created
    /\ IF Discarded(o, get_possible_actions)
       THEN /\ IF MoreAttempts(attempt, cfg.max_resamples)
               THEN /\ attempt' = attempt + 1
                    /\ UNCHANGED <<votes, log, action, pc, agents_sampled>>
               ELSE AgentReturns(None)
            /\ UNCHANGED tstate
       ELSE /\ AgentReturns(o)
            /\ tstate' = apply_action(o)
    /\ audit' = Sampled(audit, attempt, o, get_possible_actions, cfg.max_resamples)
    /\ UNCHANGED <<cfg, task, step, max_steps, action_history, stats,
                   success, is_valid, pollSet>>
    /\ UNCHANGED <<replayVars, pureVars>>

\* One attempt of the agent being sampled: one completion call and its outcome o.
Attempt(o) ==
    /\ pc = "vote"
    /\ created' = IF attempt = 0 THEN created + 1 ELSE created
    /\ IF Discarded(o, get_possible_actions)
       THEN IF MoreAttempts(attempt, cfg.max_resamples)
            THEN /\ attempt' = attempt + 1
                 /\ UNCHANGED <<votes, log, action, pc, agents_sampled>>
            ELSE AgentReturns(None)
       ELSE AgentReturns(o)
    /\ audit' = Sampled(audit, attempt, o, get_possible_actions, cfg.max_resamples)
    /\ UNCHANGED <<cfg, task, tstate, step, max_steps, action_history, stats,
                   success, is_valid, pollSet>>
    /\ UNCHANGED <<replayVars, pureVars>>

CompletionRaises == Attempt("error")
ResponseFlagged  == Attempt("flagged")
ParseFails       == Attempt("unparsed")
ActionParsed     == \E a \in Actions : Attempt(a)

\* Mutant: after vote() returned None the loop goes on (no break).
NoConsensus_Continues ==
    /\ pc = "apply"
    /\ action = None
    /\ stats' = [stats EXCEPT !.failed_steps = stats.failed_steps + 1]
    /\ audit' = Counted(audit, "failed", 1)
    /\ pc' = "loop"
    /\ UNCHANGED <<cfg, task, tstate, step, max_steps, action_history, votes,
                   agents_sampled, attempt, action, success, is_valid, pollSet,
                   created, log>>
    /\ UNCHANGED <<replayVars, pureVars>>

\* vote() returned None.
NoConsensus ==
    /\ pc = "apply"
    /\ action = None
    /\ stats' = [stats EXCEPT !.failed_steps = stats.failed_steps + 1]
    /\ pc' = "check"
    /\ audit' = Counted(audit, "failed", 1)
    /\ UNCHANGED <<cfg, task, tstate, step, max_steps, action_history, votes,
                   agents_sampled, attempt, action, success, is_valid, pollSet,
                   created, log>>
    /\ UNCHANGED <<replayVars, pureVars>>

\* apply_action(action) returns True: the plugin takes the action.
ApplyAccepted ==
    /\ pc = "apply"
    /\ action # None
    /\ action \in get_possible_actions
    /\ tstate' = apply_action(action)
    /\ action_history' = Append(action_history, action)
    /\ pc' = "loop"
    /\ UNCHANGED <<cfg, task, step, max_steps, stats, votes, agents_sampled, attempt,
                   action, success, is_valid, pollSet, created, log, audit>>
    /\ UNCHANGED <<replayVars, pureVars>>

\* Mutant: after apply_action returned False the loop goes on (no break).
ApplyRejected_Retries ==
    /\ pc = "apply"
    /\ action # None
    /\ stats' = [stats EXCEPT !.failed_steps = stats.failed_steps + 1]
    /\ audit' = Counted(audit, "failed", 1)
    /\ pc' = "loop"
    /\ UNCHANGED <<cfg, task, tstate, step, max_steps, action_history, votes,
                   agents_sampled, attempt, action, success, is_valid, pollSet,
                   created, log>>
    /\ UNCHANGED <<replayVars, pureVars>>

\* Mutant: the refused action is appended to the history before the break.
ApplyRejected_Appends ==
    /\ pc = "apply"
    /\ action # None
    /\ stats' = [stats EXCEPT !.failed_steps = stats.failed_steps + 1]
    /\ audit' = Counted(audit, "failed", 1)
    /\ action_history' = Append(action_history, action)
    /\ pc' = "check"
    /\ UNCHANGED <<cfg, task, tstate, step, max_steps, votes,
                   agents_sampled, attempt, action, success, is_valid, pollSet,
                   created, log>>
    /\ UNCHANGED <<replayVars, pureVars>>

\* apply_action(action) returns False: the plugin's state is unchanged.
ApplyRejected ==
    /\ pc = "apply"
    /\ action # None
    /\ stats' = [stats EXCEPT !.failed_steps = stats.failed_steps + 1]
    /\ pc' = "check"
    /\ audit' = Counted(audit, "failed", 1)
    /\ UNCHANGED <<cfg, task, tstate, step, max_steps, action_history, votes,
                   agents_sampled, attempt, action, success, is_valid, pollSet,
                   created, log>>
    /\ UNCHANGED <<replayVars, pureVars>>

\* Mutant: a run that used its last allowed step is reported as a failure.
Validates_LimitFirst ==
    /\ pc = "check"
    /\ is_complete
    /\ \E v \in BOOLEAN :
         /\ is_valid' = v
         /\ success' = IF step >= max_steps THEN FALSE ELSE SolveResult(TRUE, v)
    /\ pc' = "done"
    /\ UNCHANGED <<cfg, task, tstate, step, max_steps, action_history, stats, votes,
                   agents_sampled, attempt, action, pollSet, created, log, audit>>
    /\ UNCHANGED <<replayVars, pureVars>>

\* After the loop, the task is complete: validate_solution() decides.
Validates ==
    /\ pc = "check"
    /\ is_complete
    /\ \E v \in BOOLEAN :
         /\ is_valid' = v
         /\ success' = SolveResult(TRUE, v)
    /\ pc' = "done"
    /\ UNCHANGED <<cfg, task, tstate, step, max_steps, action_history, stats, votes,
                   agents_sampled, attempt, action, pollSet, created, log, audit>>
    /\ UNCHANGED <<replayVars, pureVars>>

\* After the loop, the task is not complete.
Fails ==
    /\ pc = "check"
    /\ ~is_complete
    /\ success' = SolveResult(FALSE, is_valid)
    /\ pc' = "done"
    /\ UNCHANGED <<cfg, task, tstate, step, max_steps, action_history, stats, votes,
                   agents_sampled, attempt, action, is_valid, pollSet, created, log, audit>>
    /\ UNCHANGED <<replayVars, pureVars>>

Next ==
    \/ SolveStart
    \/ StepBegins
    \/ LoopEnds
    \/ CompletionRaises
    \/ ResponseFlagged
    \/ ParseFails
    \/ ActionParsed
    \/ NoConsensus
    \/ ApplyAccepted
    \/ ApplyRejected
    \/ Validates
    \/ Fails

Spec == Init /\ [][Next]_vars

\* ------------------------------------------------------- an audited run
\* Tasks with exactly one legal action per step, whose step limit lets them
\* complete.
RunTasks == [goal : 1..MaxGoal, est : {MaxEst}, single : {TRUE}]

\* As Init, on a task of RunTasks and with the audit of the run switched on.
InitRun ==
    /\ cfg \in Configs(SolverAgents)
    /\ task \in RunTasks
    /\ tstate = [n |-> 0, used |-> {}, applied |-> <<>>]
    /\ pc = "start"
    /\ step = 0
    /\ max_steps = 0
    /\ action_history = <<>>
    /\ stats = [total_steps |-> 0, total_agents |-> 0, failed_steps |-> 0, red_flags |-> 0]
    /\ votes = <<>>
    /\ agents_sampled = 0
    /\ attempt = 0
    /\ action = None
    /\ success = FALSE
    /\ is_valid = FALSE
    /\ pollSet = {}
    /\ created = 0
    /\ log = <<>>
    /\ audit = [NoAudit EXCEPT !.on = TRUE]
    /\ ReplayIdle
    /\ PureIdle

SpecRun == InitRun /\ [][Next]_vars

\* ---------------------------------------------- replaying one voting round
ReplayLen == 3   \* a replayed round samples 1..ReplayLen agents

Permute(seq, f) == [i \in 1..Len(seq) |-> seq[f[i]]]

\* The same agent results in two delivery orders; every agent of the round
\* has a result, so max_agents_per_vote is the number of results.
InitOrder ==
    /\ \E n \in 1..ReplayLen :
         /\ ordA \in [1..n -> Actions \cup {None}]
         /\ \E f \in Permutations(1..n) : ordB = Permute(ordA, f)
         /\ \E k \in 1..MaxK : ordCfg = [k |-> k, max_agents_per_vote |-> n]
    /\ resA = NotRun /\ resB = NotRun
    /\ cfg = [k |-> 1, max_agents_per_vote |-> 1, max_resamples |-> 1]
    /\ task = [goal |-> 0, est |-> 1, single |-> FALSE]
    /\ tstate = [n |-> 0, used |-> {}, applied |-> <<>>]
    /\ pc = "replay"
    /\ step = 0
    /\ max_steps = 0
    /\ action_history = <<>>
    /\ stats = [total_steps |-> 0, total_agents |-> 0, failed_steps |-> 0, red_flags |-> 0]
    /\ votes = <<>>
    /\ agents_sampled = 0
    /\ attempt = 0
    /\ action = None
    /\ success = FALSE
    /\ is_valid = FALSE
    /\ pollSet = {}
    /\ created = 0
    /\ log = <<>>
    /\ audit = NoAudit
    /\ PureIdle

\* vote() runs on each order.
Replay ==
    /\ pc = "replay"
    /\ resA' = vote(ordA, ordCfg)
    /\ resB' = vote(ordB, ordCfg)
    /\ pc' = "replayed"
    /\ UNCHANGED <<cfg, task, tstate, step, max_steps, action_history, stats, votes,
                   agents_sampled, attempt, action, success, is_valid, pollSet,
                   created, log, audit>>
    /\ UNCHANGED <<ordA, ordB, ordCfg>>
    /\ UNCHANGED pureVars

NextOrder == Replay

SpecOrder == InitOrder /\ [][NextOrder]_vars

\* ------------------------------------------------- constructing the solver
\* A configuration whose k is None or explicit and a task with any estimate,
\* before GeneralizedMAKER.__init__.
InitK ==
    /\ cfg \in [k : {KNone} \cup (1..MaxK), max_agents_per_vote : {1}, max_resamples : {1}]
    /\ task \in [goal : {NoGoal}, est : 1..MaxNumSteps, single : {FALSE}]
    /\ given_k = cfg.k
    /\ solvers = <<>>
    /\ tstate = [n |-> 0, used |-> {}, applied |-> <<>>]
    /\ pc = "construct"
    /\ step = 0
    /\ max_steps = 0
    /\ action_history = <<>>
    /\ stats = [total_steps |-> 0, total_agents |-> 0, failed_steps |-> 0, red_flags |-> 0]
    /\ votes = <<>>
    /\ agents_sampled = 0
    /\ attempt = 0
    /\ action = None
    /\ success = FALSE
    /\ is_valid = FALSE
    /\ pollSet = {}
    /\ created = 0
    /\ log = <<>>
    /\ audit = NoAudit
    /\ ReplayIdle
    /\ HanoiIdle
    /\ response = <<>>
    /\ verdict = NotChecked

\* GeneralizedMAKER.__init__
Construct ==
    /\ pc = "construct"
    /\ cfg' = [cfg EXCEPT !.k = AutoK(cfg.k, estimate_steps)]
    /\ pc' = "constructed"
    /\ UNCHANGED <<task, tstate, step, max_steps, action_history, stats, votes,
                   agents_sampled, attempt, action, success, is_valid, pollSet,
                   created, log, audit>>
    /\ UNCHANGED <<replayVars, pureVars>>

NextK == Construct

SpecK == InitK /\ [][NextK]_vars

\* ------------------------------- several solvers built from one MAKERConfig
MaxSolvers == 2   \* 0..MaxSolvers solvers are built from the same MAKERConfig

\* estimate_steps() of the tasks handed to the solvers: both sides of every
\* threshold of the schedule.
Estimates == {5, 10, 11, 100, 101, 500, 1001, 5000}

\* A MAKERConfig object, before any solver was built from it.
InitShared ==
    /\ cfg \in [k : {KNone} \cup (1..MaxK), max_agents_per_vote : {1}, max_resamples : {1}]
    /\ given_k = cfg.k
    /\ solvers = <<>>
    /\ task = [goal |-> NoGoal, est |-> 1, single |-> FALSE]
    /\ tstate = [n |-> 0, used |-> {}, applied |-> <<>>]
    /\ pc = "build"
    /\ step = 0
    /\ max_steps = 0
    /\ action_history = <<>>
    /\ stats = [total_steps |-> 0, total_agents |-> 0, failed_steps |-> 0, red_flags |-> 0]
    /\ votes = <<>>
    /\ agents_sampled = 0
    /\ attempt = 0
    /\ action = None
    /\ success = FALSE
    /\ is_valid = FALSE
    /\ pollSet = {}
    /\ created = 0
    /\ log = <<>>
    /\ audit = NoAudit
    /\ ReplayIdle
    /\ HanoiIdle
    /\ response = <<>>
    /\ verdict = NotChecked

\* GeneralizedMAKER(config, t): self.config and self.voting.config are the
\* caller's object, and __init__ writes the computed k into it.
Build(t) ==
    /\ pc = "build"
    /\ Len(solvers) < MaxSolvers
    /\ task' = t
    /\ cfg' = [cfg EXCEPT !.k = AutoK(cfg.k, t.est)]
    /\ solvers' = Append(solvers, [task |-> t, config |-> "cfg"])
    /\ UNCHANGED <<tstate, pc, step, max_steps, action_history, stats, votes,
                   agents_sampled, attempt, action, success, is_valid, pollSet,
                   created, log, audit, given_k>>
    /\ UNCHANGED <<replayVars, response, verdict, hanoiVars>>

\* vote(): k = self.config.k, read from the object the solver was built from.
MarginUsed(solver) == cfg.k

NextShared ==
    \E t \in [goal : {NoGoal}, est : Estimates, single : {FALSE}] : Build(t)

SpecShared == InitShared /\ [][NextShared]_vars

\* --------------------------------------------------- filtering one response
MaxChunks     == 2   \* a response is made of 0..MaxChunks pieces of text
MaxValidators == 2   \* custom_validators holds 0..MaxValidators validators

Chunks == {
    <<" ">>,
    <<"A", "-", ">", "B">>,
    <<"3">>,
    <<"7">>,
    <<"I", " ", "c", "a", "n", "n", "o", "t">>,
    <<"E", "R", "R", "O", "R", ":">>,
    <<"e", "r", "r", "o", "r">>,
    <<"i", "'", "m", " ", "S", "o", "r", "r", "y">> }

RECURSIVE Responses(_)
Responses(n) ==
    IF n = 0 THEN {<<>>}
    ELSE Responses(n - 1) \cup {r \o ch : r \in Responses(n - 1), ch \in Chunks}

RECURSIVE ValidatorLists(_)
ValidatorLists(n) ==
    IF n = 0 THEN {<<>>}
    ELSE ValidatorLists(n - 1) \cup
         {Append(l, v) : l \in ValidatorLists(n - 1), v \in Validators}

\* max_response_length and min_response_length: short limits, and the defaults
MaxLengths == {4, 8, 300}
MinLengths == {0, 1, 6}

\* Any response meets any filter configuration.
InitFlag ==
    /\ cfg \in [k : {1}, max_agents_per_vote : {1}, max_resamples : {1},
                max_response_length : MaxLengths, min_response_length : MinLengths,
                custom_validators : ValidatorLists(MaxValidators)]
    /\ response \in Responses(MaxChunks)
    /\ verdict = NotChecked
    /\ given_k = KNone
    /\ solvers = <<>>
    /\ task = [goal |-> 0, est |-> 1, single |-> FALSE]
    /\ tstate = [n |-> 0, used |-> {}, applied |-> <<>>]
    /\ pc = "filter"
    /\ step = 0
    /\ max_steps = 0
    /\ action_history = <<>>
    /\ stats = [total_steps |-> 0, total_agents |-> 0, failed_steps |-> 0, red_flags |-> 0]
    /\ votes = <<>>
    /\ agents_sampled = 0
    /\ attempt = 0
    /\ action = None
    /\ success = FALSE
    /\ is_valid = FALSE
    /\ pollSet = {}
    /\ created = 0
    /\ log = <<>>
    /\ audit = NoAudit
    /\ ReplayIdle
    /\ HanoiIdle

\* RedFlagger.should_flag(response, context)
Classify ==
    /\ pc = "filter"
    /\ verdict' = should_flag(response, cfg)
    /\ pc' = "filtered"
    /\ UNCHANGED <<cfg, task, tstate, step, max_steps, action_history, stats, votes,
                   agents_sampled, attempt, action, success, is_valid, pollSet,
                   created, log, audit>>
    /\ UNCHANGED <<replayVars, kVars, response, hanoiVars>>

NextFlag == Classify

SpecFlag == InitFlag /\ [][NextFlag]_vars

\* ------------------------------- filtering one response, Towers of Hanoi
\* The pieces of SpecFlag, a lower-case peg letter, a move followed by three
\* newlines, and two newlines: two pieces give five newlines, or six.
HanoiChunks == Chunks \cup {<<"c">>, <<"A", "\n", "\n", "\n">>, <<"\n", "\n">>}

RECURSIVE HanoiResponses(_)
HanoiResponses(n) ==
    IF n = 0 THEN {<<>>}
    ELSE HanoiResponses(n - 1) \cup
         {r \o ch : r \in HanoiResponses(n - 1), ch \in HanoiChunks}

\* max_response_length: short limits, the limit of the tests, and the default
HanoiMaxLengths == {4, 8, 100, 200}

\* Any response meets any configuration of the Hanoi filter.
InitHanoiFlag ==
    /\ cfg \in [k : {1}, max_agents_per_vote : {1}, max_resamples : {1},
                max_response_length : HanoiMaxLengths, min_response_length : MinLengths,
                custom_validators : {<<>>}]
    /\ response \in HanoiResponses(MaxChunks)
    /\ verdict = NotChecked
    /\ given_k = KNone
    /\ solvers = <<>>
    /\ task = [goal |-> 0, est |-> 1, single |-> FALSE]
    /\ tstate = [n |-> 0, used |-> {}, applied |-> <<>>]
    /\ pc = "hanoi_filter"
    /\ step = 0
    /\ max_steps = 0
    /\ action_history = <<>>
    /\ stats = [total_steps |-> 0, total_agents |-> 0, failed_steps |-> 0, red_flags |-> 0]
    /\ votes = <<>>
    /\ agents_sampled = 0
    /\ attempt = 0
    /\ action = None
    /\ success = FALSE
    /\ is_valid = FALSE
    /\ pollSet = {}
    /\ created = 0
    /\ log = <<>>
    /\ audit = NoAudit
    /\ ReplayIdle
    /\ HanoiIdle

\* maker.py: RedFlagger.should_flag(response, context)
ClassifyHanoi ==
    /\ pc = "hanoi_filter"
    /\ verdict' = hanoi_should_flag(response, cfg)
    /\ pc' = "hanoi_filtered"
    /\ UNCHANGED <<cfg, task, tstate, step, max_steps, action_history, stats, votes,
                   agents_sampled, attempt, action, success, is_valid, pollSet,
                   created, log, audit>>
    /\ UNCHANGED <<replayVars, kVars, response, hanoiVars>>

NextHanoiFlag == ClassifyHanoi

SpecHanoiFlag == InitHanoiFlag /\ [][NextHanoiFlag]_vars

\* ------------------------------------------------ playing Towers of Hanoi
\* The variables of the generalized solver, which the Hanoi engine leaves alone.
genericVars == <<task, tstate, max_steps, action_history, attempt, action,
                 is_valid, pollSet, created, log, audit>>

GenericIdle ==
    /\ task = [goal |-> 0, est |-> 1, single |-> FALSE]
    /\ tstate = [n |-> 0, used |-> {}, applied |-> <<>>]
    /\ max_steps = 0
    /\ action_history = <<>>
    /\ attempt = 0
    /\ action = None
    /\ is_valid = FALSE
    /\ pollSet = {}
    /\ created = 0
    /\ log = <<>>
    /\ audit = NoAudit
    /\ ReplayIdle
    /\ given_k = KNone
    /\ solvers = <<>>
    /\ response = <<>>
    /\ verdict = NotChecked

\* MAKERConfig of maker.py with its defaults, and the margin k.
HanoiConfig(k) ==
    [k |-> k, max_response_length |-> 200, min_response_length |-> 1,
     max_resamples |-> 5]

\* MAKER.__init__: self.stats
HanoiStats ==
    [total_steps |-> 0, total_agent_calls |-> 0, red_flags |-> 0, failed_steps |-> 0]

\* What a caller may pass to apply_move: the pegs and a name that is no peg.
GivenPegs == PegNames \cup {UnknownPeg}

\* GameState(num_disks), before any move.
InitGame ==
    /\ num_disks \in 1..MaxDisks
    /\ pegs = GameState(num_disks)
    /\ moves = <<>>
    /\ move = NoMove
    /\ returned = FALSE
    /\ oracle = None
    /\ pc = "game"
    /\ cfg = HanoiConfig(1)
    /\ step = 0
    /\ stats = HanoiStats
    /\ votes = <<>>
    /\ agents_sampled = 0
    /\ success = FALSE
    /\ GenericIdle

\* state.apply_move(from_peg, to_peg)
ApplyMove(from_peg, to_peg) ==
    /\ pc = "game"
    /\ move' = <<from_peg, to_peg>>
    /\ returned' = apply_move(pegs, from_peg, to_peg).returned
    /\ pegs' = apply_move(pegs, from_peg, to_peg).pegs
    /\ UNCHANGED <<num_disks, moves, oracle, pc, cfg, step, stats, votes,
                   agents_sampled, success>>
    /\ UNCHANGED <<genericVars, replayVars, kVars, response, verdict>>

NextGame == \E from_peg \in GivenPegs, to_peg \in GivenPegs : ApplyMove(from_peg, to_peg)

SpecGame == InitGame /\ [][NextGame]_vars

\* ------------------------------------------------- verifying a move list
\* Every pair of given peg names.
GivenMoves == {<<f, t>> : f \in GivenPegs, t \in GivenPegs}

RECURSIVE MoveLists(_)
MoveLists(n) ==
    IF n = 0 THEN {<<>>}
    ELSE MoveLists(n - 1) \cup {ms \o <<m>> : ms \in MoveLists(n - 1), m \in GivenMoves}

\* The move lists handed to verify_solution: the short ones, and the optimal
\* solution cut short, with one move replaced, and with moves added.
Candidates(n) ==
    LET opt == get_optimal_solution(n)
    IN  MoveLists(MaxMoves)
        \cup {SubSeq(opt, 1, j) : j \in 0..Len(opt)}
        \cup {[opt EXCEPT ![i] = m] : i \in 1..Len(opt), m \in GivenMoves}
        \cup {opt \o ms : ms \in MoveLists(MaxMoves)}

InitVerify ==
    /\ num_disks \in 1..MaxDisks
    /\ moves \in Candidates(num_disks)
    /\ pegs = GameState(num_disks)
    /\ move = NoMove
    /\ returned = FALSE
    /\ oracle = None
    /\ pc = "verify"
    /\ cfg = HanoiConfig(1)
    /\ step = 0
    /\ stats = HanoiStats
    /\ votes = <<>>
    /\ agents_sampled = 0
    /\ success = FALSE
    /\ GenericIdle

\* verify_solution(num_disks, moves); pegs is its local state when it returns.
Verify ==
    /\ pc = "verify"
    /\ returned' = verify_solution(num_disks, moves)
    /\ pegs' = ApplyAll(GameState(num_disks), moves, 1).pegs
    /\ pc' = "verified"
    /\ UNCHANGED <<num_disks, moves, move, oracle, cfg, step, stats, votes,
                   agents_sampled, success>>
    /\ UNCHANGED <<genericVars, replayVars, kVars, response, verdict>>

NextVerify == Verify

SpecVerify == InitVerify /\ [][NextVerify]_vars

\* ------------------------------- maker.py: MAKER.solve_towers_of_hanoi
\* vote_on_move: max_agents = 50, the safety limit
max_agents == 50

\* expected_moves = 2**num_disks - 1
expected_moves(n) == 2^n - 1

\* The margins of the tests: 1, 2, 3, and the one computed for the puzzle.
HanoiMargins(n) == {1, 2, 3} \cup {compute_k_for_steps(expected_moves(n))}

\* The legal moves of the position: what get_next_move can return besides None.
ValidMoves(s) ==
    {m \in PegNames \X PegNames : is_valid_move(s, m[1], m[2])}

\* An agent that answers with the move of the optimal solution for this step;
\* get_next_move returns it if it is legal in the position, and None if not.
OptimalVote ==
    LET opt == get_optimal_solution(num_disks)
    IN  IF step \in 1..Len(opt) /\ is_valid_move(pegs, opt[step][1], opt[step][2])
        THEN opt[step] ELSE NoMove

\* What get_next_move can return, by the agents of the run: they answer the
\* optimal move, or any legal move, or nothing usable. Agents that answer any
\* legal move are run on small puzzles with the margin 1, under which the
\* first vote decides and every legal move can be the one applied.
Oracles == {"optimal", "unreliable", "silent"}

AgentAnswers ==
    IF oracle = "optimal" THEN {OptimalVote}
    ELSE IF oracle = "unreliable" THEN ValidMoves(pegs) \cup {NoMove}
    ELSE {NoMove}

\* Mutant: the leader's own count is compared with k.
TallyMove_FirstToK(v, sampled, m, k) ==
    LET tallied == IF m # NoMove THEN CounterIncr(v, m) ELSE v
    IN  IF m # NoMove /\ MarginReached_FirstToK(most_common(tallied), k)
        THEN [votes |-> tallied, agents_sampled |-> sampled, returned |-> TRUE,
              move |-> most_common(tallied)[1].action]
        ELSE IF KeepSampling(sampled + 1, max_agents)
        THEN [votes |-> tallied, agents_sampled |-> sampled + 1, returned |-> FALSE,
              move |-> NoMove]
        ELSE [votes |-> tallied, agents_sampled |-> sampled + 1, returned |-> TRUE,
              move |-> IF tallied # <<>> THEN most_common_1(tallied).action ELSE NoMove]

\* vote_on_move: one pass of the while loop for the agent's answer m, with
\* the code after the loop when this was the last pass.
TallyMove(v, sampled, m, k) ==
    LET tallied == IF m # NoMove THEN CounterIncr(v, m) ELSE v
    IN  IF m # NoMove /\ MarginReached(most_common(tallied), k)
        THEN [votes |-> tallied, agents_sampled |-> sampled, returned |-> TRUE,
              move |-> most_common(tallied)[1].action]
        ELSE IF KeepSampling(sampled + 1, max_agents)
        THEN [votes |-> tallied, agents_sampled |-> sampled + 1, returned |-> FALSE,
              move |-> NoMove]
        ELSE [votes |-> tallied, agents_sampled |-> sampled + 1, returned |-> TRUE,
              move |-> IF tallied # <<>> THEN most_common_1(tallied).action ELSE NoMove]

\* Mutant: no safety margin on the number of steps.
HanoiLoopContinues_HalfLimit(s, n, st) ==
    ~is_solved(s, n) /\ st * 2 < expected_moves(n)

\* while not state.is_solved() and step < expected_moves * 2
HanoiLoopContinues(s, n, st) ==
    ~is_solved(s, n) /\ st < expected_moves(n) * 2

\* MAKER(config), before solve_towers_of_hanoi(num_disks) is called.
InitHanoi ==
    /\ num_disks \in 1..MaxDisks
    /\ oracle \in Oracles
    /\ oracle = "unreliable" => num_disks <= MaxUnreliableDisks
    /\ cfg \in {HanoiConfig(k) : k \in IF oracle = "unreliable" THEN {1}
                                       ELSE HanoiMargins(num_disks)}
    /\ stats = HanoiStats
    /\ pegs = GameState(0)
    /\ moves = <<>>
    /\ move = NoMove
    /\ returned = FALSE
    /\ pc = "hanoi_start"
    /\ step = 0
    /\ votes = <<>>
    /\ agents_sampled = 0
    /\ success = FALSE
    /\ GenericIdle

\* state = GameState(num_disks); moves = []; step = 0
HanoiStart ==
    /\ pc = "hanoi_start"
    /\ pegs' = GameState(num_disks)
    /\ moves' = <<>>
    /\ step' = 0
    /\ pc' = "hanoi_loop"
    /\ UNCHANGED <<num_disks, oracle, cfg, stats, move, returned, votes,
                   agents_sampled, success>>
    /\ UNCHANGED <<genericVars, replayVars, kVars, response, verdict>>

\* The loop test holds: step += 1, and vote_on_move starts with no votes.
HanoiStepBegins ==
    /\ pc = "hanoi_loop"
    /\ HanoiLoopContinues(pegs, num_disks, step)
    /\ step' = step + 1
    /\ stats' = [stats EXCEPT !.total_steps = step + 1]
    /\ votes' = <<>>
    /\ agents_sampled' = 0
    /\ move' = NoMove
    /\ pc' = "hanoi_vote"
    /\ UNCHANGED <<num_disks, oracle, cfg, pegs, moves, returned, success>>
    /\ UNCHANGED <<genericVars, replayVars, kVars, response, verdict>>

\* One agent answers; vote_on_move tallies and either goes on or returns.
HanoiAgentReturns(m) ==
    /\ pc = "hanoi_vote"
    /\ LET r == TallyMove(votes, agents_sampled, m, cfg.k)
       IN  /\ votes' = r.votes
           /\ agents_sampled' = r.agents_sampled
           /\ move' = r.move
           /\ pc' = IF r.returned THEN "hanoi_apply" ELSE "hanoi_vote"
    /\ UNCHANGED <<num_disks, oracle, cfg, pegs, moves, returned, step, stats, success>>
    /\ UNCHANGED <<genericVars, replayVars, kVars, response, verdict>>

\* The rest of the loop body: no move, or a move that does not apply, ends the
\* run in failure; an applied move is appended.
HanoiApply ==
    /\ pc = "hanoi_apply"
    /\ IF move = NoMove
       THEN /\ stats' = [stats EXCEPT !.failed_steps = @ + 1]
            /\ success' = FALSE
            /\ pc' = "hanoi_done"
            /\ UNCHANGED <<pegs, moves, returned>>
       ELSE LET r == apply_move(pegs, move[1], move[2])
            IN  /\ returned' = r.returned
                /\ pegs' = r.pegs
                /\ IF ~r.returned
                   THEN /\ stats' = [stats EXCEPT !.failed_steps = @ + 1]
                        /\ success' = FALSE
                        /\ pc' = "hanoi_done"
                        /\ UNCHANGED moves
                   ELSE /\ moves' = Append(moves, move)
                        /\ pc' = "hanoi_loop"
                        /\ UNCHANGED <<stats, success>>
    /\ UNCHANGED <<num_disks, oracle, cfg, move, step, votes, agents_sampled>>
    /\ UNCHANGED <<genericVars, replayVars, kVars, response, verdict>>

\* The loop test fails: a solved puzzle is verified, an unsolved one has failed.
HanoiLoopEnds ==
    /\ pc = "hanoi_loop"
    /\ ~HanoiLoopContinues(pegs, num_disks, step)
    /\ success' = IF is_solved(pegs, num_disks)
                  THEN verify_solution(num_disks, moves) ELSE FALSE
    /\ pc' = "hanoi_done"
    /\ UNCHANGED <<num_disks, oracle, cfg, pegs, moves, move, returned, step, stats,
                   votes, agents_sampled>>
    /\ UNCHANGED <<genericVars, replayVars, kVars, response, verdict>>

NextHanoi ==
    \/ HanoiStart
    \/ HanoiStepBegins
    \/ \E m \in AgentAnswers : HanoiAgentReturns(m)
    \/ HanoiApply
    \/ HanoiLoopEnds

SpecHanoi == InitHanoi /\ [][NextHanoi]_vars

\* --------------------------- the two voting rounds on the same agent results
\* The moves that the agents' results stand for in the Hanoi engine.
AsMove(result) ==
    IF result = None THEN NoMove
    ELSE IF result = "a1" THEN <<"A", "B">>
    ELSE <<"A", "C">>

\* vote_on_move has not sampled any agent.
MoveNotRun == [votes |-> <<>>, agents_sampled |-> 0, returned |-> FALSE, move |-> NoMove]

\* Both rounds begin: resA is the round of maker.vote_on_move, resB the round
\* of maker_base.vote under the same k and max_agents_per_vote = 50.
InitBoth ==
    /\ \E k \in 1..MaxK : ordCfg = [k |-> k, max_agents_per_vote |-> max_agents]
    /\ resA = MoveNotRun
    /\ resB = NotRun
    /\ ordA = <<>> /\ ordB = <<>>
    /\ pc = "both"
    /\ cfg = [k |-> 1, max_agents_per_vote |-> 1, max_resamples |-> 1]
    /\ task = [goal |-> 0, est |-> 1, single |-> FALSE]
    /\ tstate = [n |-> 0, used |-> {}, applied |-> <<>>]
    /\ step = 0
    /\ max_steps = 0
    /\ action_history = <<>>
    /\ stats = [total_steps |-> 0, total_agents |-> 0, failed_steps |-> 0, red_flags |-> 0]
    /\ votes = <<>>
    /\ agents_sampled = 0
    /\ attempt = 0
    /\ action = None
    /\ success = FALSE
    /\ is_valid = FALSE
    /\ pollSet = {}
    /\ created = 0
    /\ log = <<>>
    /\ audit = NoAudit
    /\ PureIdle

\* The next agent's result reaches each round that is still sampling.
Deliver(result) ==
    /\ pc = "both"
    /\ ~resA.returned \/ ~resB.returned
    /\ resA' = IF resA.returned THEN resA
               ELSE TallyMove(resA.votes, resA.agents_sampled, AsMove(result), ordCfg.k)
    /\ resB' = IF resB.returned THEN resB
               ELSE TallyVote(resB.votes, resB.agents_sampled, result, ordCfg)
    /\ UNCHANGED <<cfg, task, tstate, pc, step, max_steps, action_history, stats, votes,
                   agents_sampled, attempt, action, success, is_valid, pollSet,
                   created, log, audit>>
    /\ UNCHANGED <<ordA, ordB, ordCfg>>
    /\ UNCHANGED pureVars

\* What an agent can return: one of two candidates, or nothing usable.
BothResults == {"a1", "a2", None}

NextBoth == \E result \in BothResults : Deliver(result)

SpecBoth == InitBoth /\ [][NextBoth]_vars

\* ------------- scenario1_dependency_resolution.py: DependencyResolutionTask
MaxModules == 3
MaxDeps == 2

\* The module names in use; a BuildAction is modelled by its module_name.
ModuleNames == {"a", "b", "c"}

\* An action that is not a BuildAction.
NotBuildAction == "other"

\* The lists of at most n module names.
RECURSIVE NameLists(_)
NameLists(n) ==
    IF n = 0 THEN {<<>>}
    ELSE NameLists(n - 1)
         \cup {l \o <<m>> : l \in NameLists(n - 1), m \in ModuleNames}

Elements(l) == {l[i] : i \in 1..Len(l)}

\* modules: any non-empty list of names, a name possibly twice.
ModuleLists == NameLists(MaxModules) \ {<<>>}

\* dependencies: for each name a list of distinct names, written in
\* alphabetical order (a missing key is the empty list of
\* dependencies.get(module, [])).
ModuleRank == [m \in ModuleNames |-> IF m = "a" THEN 1 ELSE IF m = "b" THEN 2 ELSE 3]

DepLists == {l \in NameLists(MaxDeps) :
                \A i \in 1..Len(l) : \A j \in 1..Len(l) :
                    i < j => ModuleRank[l[i]] < ModuleRank[l[j]]}

\* The state of a task: self.built and self.build_order.
NothingBuilt == [built |-> {}, build_order |-> <<>>]

\* _validate_no_cycles: has_cycle(node), with the visited set it leaves; the
\* loop over the dependencies of node from position i on is has_cycle_deps.
RECURSIVE has_cycle(_, _, _, _)
RECURSIVE has_cycle_deps(_, _, _, _, _)
has_cycle(dependencies, node, visited, rec_stack) ==
    has_cycle_deps(dependencies, node, 1, visited \cup {node}, rec_stack \cup {node})

has_cycle_deps(dependencies, node, i, visited, rec_stack) ==
    IF i > Len(dependencies[node]) THEN [cycle |-> FALSE, visited |-> visited]
    ELSE LET dep == dependencies[node][i]
         IN  IF dep \notin visited
             THEN LET r == has_cycle(dependencies, dep, visited, rec_stack)
                  IN  IF r.cycle THEN r
                      ELSE has_cycle_deps(dependencies, node, i + 1, r.visited, rec_stack)
             ELSE IF dep \in rec_stack THEN [cycle |-> TRUE, visited |-> visited]
             ELSE has_cycle_deps(dependencies, node, i + 1, visited, rec_stack)

\* _validate_no_cycles: the loop over self.modules from position i on; TRUE
\* when ValueError is raised.
RECURSIVE RaisesCircular(_, _, _)
RaisesCircular(t, i, visited) ==
    IF i > Len(t.modules) THEN FALSE
    ELSE IF t.modules[i] \in visited THEN RaisesCircular(t, i + 1, visited)
    ELSE LET r == has_cycle(t.dependencies, t.modules[i], visited, {})
         IN  IF r.cycle THEN TRUE ELSE RaisesCircular(t, i + 1, r.visited)

\* all(dep in self.built for dep in deps)
DepsBuilt(t, s, module) ==
    \A i \in 1..Len(t.dependencies[module]) : t.dependencies[module][i] \in s.built

\* Mutant: modules that are already built are listed again.
buildable_ListsBuilt(t, s) ==
    LET Ready(module) == DepsBuilt(t, s, module)
    IN  SelectSeq(t.modules, Ready)

\* get_possible_actions: buildable, the modules that can be built, in the
\* order of self.modules.
buildable(t, s) ==
    LET Ready(module) == module \notin s.built /\ DepsBuilt(t, s, module)
    IN  SelectSeq(t.modules, Ready)

\* Mutant: the dependencies are not verified.
apply_action_NoDependencyCheck(t, s, a) ==
    IF a = NotBuildAction THEN [returned |-> FALSE, state |-> s]
    ELSE IF a \in s.built THEN [returned |-> FALSE, state |-> s]
    ELSE [returned |-> TRUE,
          state |-> [built |-> s.built \cup {a},
                     build_order |-> Append(s.build_order, a)]]

\* apply_action: what it returns and the state it leaves.
apply_action_build(t, s, a) ==
    IF a = NotBuildAction THEN [returned |-> FALSE, state |-> s]
    ELSE IF a \in s.built THEN [returned |-> FALSE, state |-> s]
    ELSE IF ~DepsBuilt(t, s, a) THEN [returned |-> FALSE, state |-> s]
    ELSE [returned |-> TRUE,
          state |-> [built |-> s.built \cup {a},
                     build_order |-> Append(s.build_order, a)]]

\* is_complete: len(self.built) == len(self.modules)
is_complete_build(t, s) == Cardinality(s.built) = Len(t.modules)

\* validate_solution's loop from position i of build_order on, with the set
\* built_so_far.
RECURSIVE OrderRespectsDeps(_, _, _, _)
OrderRespectsDeps(t, s, i, built_so_far) ==
    IF i > Len(s.build_order) THEN TRUE
    ELSE LET module == s.build_order[i]
         IN  IF \E j \in 1..Len(t.dependencies[module]) :
                    t.dependencies[module][j] \notin built_so_far
             THEN FALSE
             ELSE OrderRespectsDeps(t, s, i + 1, built_so_far \cup {module})

\* validate_solution: the flag it returns.
validate_solution_build(t, s) ==
    IF ~is_complete_build(t, s) THEN FALSE
    ELSE OrderRespectsDeps(t, s, 1, {})

\* DependencyResolutionTask(modules, dependencies) is being constructed. In
\* this specification task is the pair (modules, dependencies), tstate is
\* (built, build_order), action and returned are the last apply_action call
\* and its result, and step counts the calls that returned True.
InitBuild ==
    /\ task \in [modules : ModuleLists, dependencies : [ModuleNames -> DepLists]]
    /\ tstate = NothingBuilt
    /\ pc = "new_task"
    /\ action = None
    /\ step = 0
    /\ cfg = [k |-> 1, max_agents_per_vote |-> 1, max_resamples |-> 1]
    /\ max_steps = 0
    /\ action_history = <<>>
    /\ stats = [total_steps |-> 0, total_agents |-> 0, failed_steps |-> 0, red_flags |-> 0]
    /\ votes = <<>>
    /\ agents_sampled = 0
    /\ attempt = 0
    /\ success = FALSE
    /\ is_valid = FALSE
    /\ pollSet = {}
    /\ created = 0
    /\ log = <<>>
    /\ audit = NoAudit
    /\ ReplayIdle
    /\ PureIdle

\* __init__: the task exists unless _validate_no_cycles raises ValueError.
NewTask ==
    /\ pc = "new_task"
    /\ pc' = IF RaisesCircular(task, 1, {}) THEN "value_error" ELSE "task"
    /\ UNCHANGED <<cfg, task, tstate, step, max_steps, action_history, stats, votes,
                   agents_sampled, attempt, action, success, is_valid, pollSet,
                   created, log, audit>>
    /\ UNCHANGED <<replayVars, pureVars>>

\* task.apply_action(a)
ApplyAction(a) ==
    /\ pc = "task"
    /\ LET r == apply_action_build(task, tstate, a)
       IN  /\ tstate' = r.state
           /\ returned' = r.returned
           /\ step' = IF r.returned THEN step + 1 ELSE step
    /\ action' = a
    /\ UNCHANGED <<cfg, task, pc, max_steps, action_history, stats, votes,
                   agents_sampled, attempt, success, is_valid, pollSet,
                   created, log, audit>>
    /\ UNCHANGED <<replayVars, kVars, response, verdict>>
    /\ UNCHANGED <<num_disks, pegs, moves, move, oracle>>

NextBuild ==
    \/ NewTask
    \/ \E a \in ModuleNames \cup {NotBuildAction} : ApplyAction(a)

SpecBuild == InitBuild /\ [][NextBuild]_vars

\* The caller applies the i-th action that get_possible_actions() returned.
ApplyPossible(i) ==
    /\ pc = "task"
    /\ i \in 1..Len(buildable(task, tstate))
    /\ ApplyAction(buildable(task, tstate)[i])

NextPossible ==
    \/ NewTask
    \/ \E i \in 1..MaxModules : ApplyPossible(i)

SpecPossible == InitBuild /\ [][NextPossible]_vars

\* ================================================================== claims
Cap == cfg.max_agents_per_vote

\* vote() has returned: from inside the loop, or after it.
RoundOver   == pc = "apply"
ReturnedInLoop == RoundOver /\ agents_sampled < Cap
ReturnedAfterLoop == RoundOver /\ agents_sampled >= Cap

TopCount(v) == Max({v[i].count : i \in 1..Len(v)})
Voted(v)    == {v[i].action : i \in 1..Len(v)}
Tied(v)     == {a \in Voted(v) : CountOf(v, a) = TopCount(v)}

\* C1: vote returns an action from inside the loop (so before the cap ended
\* the round) only if that action's count exceeds every other action's count
\* by at least k, the runner-up counting 0 when no other action has votes.
C1_EarlyReturnHasMargin ==
    (ReturnedInLoop /\ action # None) =>
        /\ CountOf(votes, action) >= cfg.k
        /\ \A b \in Actions \ {action} :
             CountOf(votes, action) - CountOf(votes, b) >= cfg.k

C1_Witness ==
    /\ ReturnedInLoop
    /\ action # None
    /\ cfg.k >= 2
    /\ Cardinality(Voted(votes)) >= 2

\* C2 as stated: the same multiset of agent results gives the same leader in
\* every delivery order.
NonNone(results) == {i \in 1..Len(results) : results[i] # None}

RECURSIVE TotalVotes(_)
TotalVotes(v) == IF v = <<>> THEN 0 ELSE Head(v).count + TotalVotes(Tail(v))

AllTallied(results, res) == TotalVotes(res.votes) = Cardinality(NonNone(results))

C2_OrderInvariant ==
    pc = "replayed" => resA.leader = resB.leader

\* C2 amended: when both delivery orders tally every vote of the multiset
\* and one action has strictly more votes than every other, vote returns
\* that action in both orders.
C2_OrderInvariantWhenAllTalliedAndUniqueTop ==
    (/\ pc = "replayed"
     /\ AllTallied(ordA, resA)
     /\ AllTallied(ordB, resB)
     /\ resA.votes # <<>>
     /\ Cardinality(Tied(resA.votes)) = 1)
    => /\ resA.leader = resB.leader
       /\ resA.leader \in Tied(resA.votes)

C2_Witness ==
    /\ pc = "replayed"
    /\ ordA # ordB
    /\ AllTallied(ordA, resA)
    /\ AllTallied(ordB, resB)
    /\ Cardinality(Voted(resA.votes)) >= 2
    /\ Cardinality(Tied(resA.votes)) = 1
    /\ resA.votes # resB.votes
    /\ resA.leader = resB.leader

\* C3: vote returns None exactly when no agent of the round produced a vote;
\* otherwise it returns an action that has at least one vote in the tally.
C3_NoneIffNoVote ==
    RoundOver =>
        /\ (action = None) <=> (log = <<>>)
        /\ (log = <<>>) <=> (votes = <<>>)
        /\ action # None => CountOf(votes, action) >= 1

C3_Witness ==
    /\ RoundOver
    /\ action = None
    /\ created = Cap
    /\ Cap >= 2

\* C4: a round samples at most max_agents_per_vote agents whatever k is, an
\* agent without a vote counts toward the cap, and the round is over as soon
\* as the cap is reached.
C4_AtMostCapAgents ==
    /\ created <= Cap
    /\ agents_sampled <= Cap
    /\ pc = "vote" => agents_sampled < Cap
    /\ pc = "vote" => created \in {agents_sampled, agents_sampled + 1}
    /\ pc \in {"vote", "apply"} => Len(log) <= created
    /\ ReturnedAfterLoop => created = Cap /\ agents_sampled = Cap

C4_Witness ==
    /\ ReturnedAfterLoop
    /\ created = Cap
    /\ Cap >= 2
    /\ Len(log) < created
    /\ log # <<>>

\* C5: when the cap ends the round and at least one vote was cast, vote
\* returns an action whose count is the highest of the tally.
C5_FallbackIsPlurality ==
    (ReturnedAfterLoop /\ votes # <<>>) =>
        /\ action # None
        /\ CountOf(votes, action) = TopCount(votes)

C5_Witness ==
    /\ ReturnedAfterLoop
    /\ Cardinality(Voted(votes)) >= 2
    /\ votes[1].count < TopCount(votes)
    /\ CountOf(votes, action) = TopCount(votes)


\* The place in the round's votes where action a reached its c-th vote.
ReachIndex(l, a, c) ==
    Min({i \in 1..Len(l) : l[i] = a /\ Cardinality({j \in 1..i : l[j] = a}) = c})

FirstToReach(l, S, c) ==
    CHOOSE a \in S : \A b \in S : ReachIndex(l, a, c) <= ReachIndex(l, b, c)

\* The action of S that entered the tally first (got its first vote first).
FirstInserted(l, S) == FirstToReach(l, S, 1)

TieAtCap == ReturnedAfterLoop /\ votes # <<>> /\ Cardinality(Tied(votes)) >= 2

\* C6 as stated: at the cap, among the actions tied for the highest count,
\* vote returns the one that reached that count first, which is also the one
\* inserted first into the tally.
C6_TieFirstToReachCount ==
    TieAtCap =>
        /\ action = FirstToReach(log, Tied(votes), TopCount(votes))
        /\ action = FirstInserted(log, Tied(votes))

\* C6 amended: at the cap, among the actions tied for the highest count, vote
\* returns the one inserted first into the tally (the first of them to get a
\* vote), whether or not it was the first to reach the tied count.
C6_TieFirstInserted ==
    TieAtCap => action = FirstInserted(log, Tied(votes))

C6_Witness ==
    /\ TieAtCap
    /\ FirstToReach(log, Tied(votes), TopCount(votes)) # FirstInserted(log, Tied(votes))
    /\ action = FirstInserted(log, Tied(votes))

\* C7: only members of the valid action set taken when the round began enter
\* the tally, so the action passed to apply_action is a member of that set,
\* also when it comes from the plurality fallback.
C7_VotesAreValidActions ==
    pc \in {"vote", "apply"} =>
        /\ Voted(votes) \subseteq pollSet
        /\ \A i \in 1..Len(log) : log[i] \in pollSet
        /\ (pc = "apply" /\ action # None) => action \in pollSet

C7_Witness ==
    /\ ReturnedAfterLoop
    /\ action # None
    /\ step >= 2
    /\ pollSet # Actions
    /\ Cardinality(Voted(votes)) >= 2

\* C8: solve returns success = True exactly when the task is complete after
\* the loop and validate_solution() accepts; otherwise it returns False.
C8_SuccessIffCompleteAndValid ==
    pc = "done" => (success <=> (is_complete /\ is_valid))

C8_Witness ==
    /\ pc = "done"
    /\ success
    /\ step >= 2

\* C9: on a task that is complete when solve starts, solve runs no step (no
\* voting round, no apply_action, empty history) and returns success = True
\* exactly when validate_solution() accepts.
C9_CompleteAtStartZeroSteps ==
    task.goal = 0 =>
        /\ pc \notin {"vote", "apply"}
        /\ step = 0
        /\ stats.total_steps = 0
        /\ created = 0
        /\ action_history = <<>>
        /\ tstate.n = 0
        /\ pc = "done" => (success <=> is_valid)

C9_Witness ==
    /\ task.goal = 0
    /\ pc = "done"
    /\ success
    /\ is_valid

\* C10: no run executes more than 3 x estimate_steps() steps, and a run in
\* which the task never completes and no step fails stops after exactly
\* 3 x estimate_steps() steps with success = False.
C10_StepLimit ==
    /\ step <= 3 * task.est
    /\ (pc = "done" /\ ~is_complete /\ stats.failed_steps = 0) =>
          /\ step = 3 * task.est
          /\ Len(action_history) = 3 * task.est
          /\ ~success

C10_Witness ==
    /\ pc = "done"
    /\ task.goal = NoGoal
    /\ task.est = 2
    /\ stats.failed_steps = 0
    /\ step = 6
    /\ ~success

\* The round that ended last returned after its loop (the cap was reached).
LastRoundHitCap == agents_sampled >= Cap

\* C12: when the cap ends a round before any action leads by k (always so
\* when max_agents_per_vote < k) and a vote was cast, vote() returns the
\* plurality winner; solve counts the step, records no failure, and once
\* apply_action has taken the winner it is the last entry of the history and
\* the loop goes on.
C12_FallbackStepIsApplied ==
    /\ (RoundOver /\ Cap < cfg.k) => ReturnedAfterLoop
    /\ (ReturnedAfterLoop /\ log # <<>>) =>
          /\ action \in Voted(votes)
          /\ CountOf(votes, action) = TopCount(votes)
          /\ stats.total_steps = step
          /\ stats.failed_steps = 0
    /\ (pc = "loop" /\ step >= 1 /\ LastRoundHitCap) =>
          /\ action_history[step] = action
          /\ Len(action_history) = step
          /\ stats.total_steps = step
          /\ stats.failed_steps = 0

\* A second round is under way after a step that the fallback resolved.
C12_Witness ==
    /\ pc = "vote"
    /\ step = 2
    /\ Cap < cfg.k
    /\ action_history = <<action>>
    /\ stats.total_steps = 2

\* vote() returned None in the step that ended the loop.
EndedNoConsensus == pc \in {"check", "done"} /\ step >= 1 /\ action = None

\* C13: when the round of step N returns None, nothing is applied in that
\* step (the plugin has taken N - 1 actions), step N is the last step,
\* failed_steps has gone from 0 to 1 and solve returns success = False.
C13_NoConsensusEndsRun ==
    EndedNoConsensus =>
        /\ Len(tstate.applied) = step - 1
        /\ Len(action_history) = step - 1
        /\ stats.total_steps = step
        /\ stats.failed_steps = 1
        /\ log = <<>>
        /\ (pc = "done" => ~success)

C13_Witness ==
    /\ pc = "done"
    /\ action = None
    /\ step = 2
    /\ stats.failed_steps = 1
    /\ ~success

\* apply_action refused the winner in the step that ended the loop.
EndedRejected == pc \in {"check", "done"} /\ action # None /\ stats.failed_steps >= 1

C15_HistoryIsAcceptedWinners ==
    pc = "done" =>
        /\ action_history = tstate.applied
        /\ stats.failed_steps \in {0, 1}
        /\ Len(action_history) = stats.total_steps - stats.failed_steps

C15_Witness ==
    /\ pc = "done"
    /\ stats.failed_steps = 1
    /\ stats.total_steps = 3
    /\ Len(action_history) = 2
    /\ action # None

\* C16: while the round of step N runs or has just returned, the plugin has
\* accepted exactly N - 1 actions and no step has failed; no round and no
\* apply_action happens on a complete task.
C16_StepsSequential ==
    pc \in {"vote", "apply"} =>
        /\ Len(tstate.applied) = step - 1
        /\ tstate.n = step - 1
        /\ stats.failed_steps = 0
        /\ ~is_complete

C16_Witness ==
    /\ pc = "vote"
    /\ step = 3
    /\ Len(tstate.applied) = 2
    /\ task.goal = 3

\* A run on a task with one legal action per step in which no attempt of any
\* agent was discarded (the sampler always returned the legal action), no
\* apply_action was refused, and validate_solution() accepted.
CleanRun ==
    /\ pc = "done"
    /\ audit.on
    /\ task.single
    /\ audit.discards = 0
    /\ stats.failed_steps = 0
    /\ is_complete
    /\ is_valid

\* C11 as stated, for any k >= 1: a clean run on a task of G steps (G = 3 in
\* the claim) succeeds in exactly G steps and samples exactly G x k agents.
C11_CleanRunSamplesStepsTimesK ==
    CleanRun =>
        /\ success
        /\ step = task.goal
        /\ stats.total_steps = task.goal
        /\ audit.agents = task.goal * cfg.k

\* C11, amended: the same for 1 <= k <= max_agents_per_vote; with
\* k > max_agents_per_vote the run still succeeds in G steps, but every step
\* is resolved by the fallback after max_agents_per_vote agents.
C11_CleanRunSamplesStepsTimesMinKCap ==
    CleanRun =>
        /\ success
        /\ step = task.goal
        /\ stats.total_steps = task.goal
        /\ audit.rounds = task.goal
        /\ action_history = [i \in 1..task.goal |-> ActionSeq[((i - 1) % Len(ActionSeq)) + 1]]
        /\ (cfg.k <= Cap => audit.agents = task.goal * cfg.k)
        /\ (cfg.k > Cap  => audit.agents = task.goal * Cap)

C11_Witness ==
    /\ CleanRun
    /\ task.goal = 3
    /\ cfg.k = 2
    /\ Cap = 2
    /\ success
    /\ audit.agents = 6

\* C17 as stated: when solve returns, total_steps is the number of rounds
\* started, total_agents the number of agents sampled over all rounds,
\* red_flags the number of flagged responses, and failed_steps the number of
\* steps that ended in no-consensus or action-rejected.
C17_StatsAgreeWithRun ==
    (pc = "done" /\ audit.on) =>
        /\ stats.total_steps = audit.rounds
        /\ stats.total_agents = audit.agents
        /\ stats.red_flags = audit.flags
        /\ stats.failed_steps = audit.failed

\* A finished run that sampled agents and had a response flagged, with both
\* of these counters still at their initial value.
C17_Witness ==
    /\ pc = "done"
    /\ audit.on
    /\ audit.agents >= 3
    /\ audit.flags >= 1
    /\ stats.total_agents = 0
    /\ stats.red_flags = 0
    /\ stats.total_steps = audit.rounds
    /\ stats.failed_steps = audit.failed

\* C18: with k left to auto-compute, 7 steps give k = 2, 500 give k = 4 and
\* 5000 give k >= 3; k is 2 up to 10 steps, 3 up to 100, 4 up to 1000 and
\* max(3, floor(ln(steps)) + 1) above, never less than for one step fewer;
\* the Hanoi engine's schedule is the same; a configured k is kept.
C18_KSchedule ==
    pc = "constructed" =>
        LET n == task.est
            k == cfg.k
        IN  /\ (given_k # KNone) => (k = given_k)
            /\ (given_k = KNone) =>
                  /\ (n = 7 => k = 2)
                  /\ (n = 500 => k = 4)
                  /\ (n = 5000 => k >= 3)
                  /\ (n <= 10 => k = 2)
                  /\ (10 < n /\ n <= 100 => k = 3)
                  /\ (100 < n /\ n <= 1000 => k = 4)
                  /\ (n > 1000 => k >= 3 /\ ExpCeil[k - 1] <= n /\ n < ExpCeil[k])
                  /\ (n > 1 => compute_k(n - 1) <= k)
                  /\ compute_k_for_steps(n) = k

C18_Witness ==
    /\ pc = "constructed"
    /\ given_k = KNone
    /\ solvers = <<>>
    /\ task.est = 5000
    /\ cfg.k = 9

\* Two characters are the same letter, whatever their case.
SameLetter(a, b) ==
    a = b \/ \E m \in 1..Len(UpperCase) : {a, b} = {UpperCase[m], LowerCase[m]}

\* The response holds failure pattern number p, in any letter case.
HasPattern(r, p) ==
    \E i \in 1..(Len(r) - Len(failure_patterns[p]) + 1) :
        \A j \in 1..Len(failure_patterns[p]) : SameLetter(r[i + j - 1], failure_patterns[p][j])

HasFailurePhrase(r) == \E p \in 1..Len(failure_patterns) : HasPattern(r, p)

NonBlank(r) == \E i \in 1..Len(r) : r[i] \notin Spaces

AllValidatorsAccept(r, c) ==
    \A i \in 1..Len(c.custom_validators) : Validate(c.custom_validators[i], r).ok

\* C19: should_flag flags the empty string, every response longer than
\* max_response_length and every response that holds a failure phrase in any
\* letter case; it accepts every non-blank response whose length is within
\* [min_response_length, max_response_length], that holds no failure phrase
\* and that every custom validator accepts.
C19_FlagsAndAccepts ==
    pc = "filtered" =>
        /\ (response = <<>>) => verdict.flagged
        /\ (Len(response) > cfg.max_response_length) => verdict.flagged
        /\ HasFailurePhrase(response) => verdict.flagged
        /\ ( /\ NonBlank(response)
             /\ cfg.min_response_length <= Len(response)
             /\ Len(response) <= cfg.max_response_length
             /\ ~HasFailurePhrase(response)
             /\ AllValidatorsAccept(response, cfg) )
           => (~verdict.flagged /\ verdict.reason = Reason("", 0))

\* An in-bounds response is flagged for a failure phrase written in capitals.
C19_Witness ==
    /\ pc = "filtered"
    /\ HasFailurePhrase(response)
    /\ \A p \in 1..Len(failure_patterns) : ~Contains(response, failure_patterns[p])
    /\ cfg.min_response_length <= Len(response)
    /\ Len(response) <= cfg.max_response_length
    /\ verdict.flagged
    /\ verdict.reason.kind = "Failure pattern"

\* The reason is that of the first failing check, in the order too long, too
\* short, empty after trimming, failure phrase, custom validators.
FirstFailingCheck ==
    pc = "filtered" =>
        LET r     == response
            long  == Len(r) > cfg.max_response_length
            short == Len(r) < cfg.min_response_length
            blank == ~NonBlank(r)
            bad   == HasFailurePhrase(r)
            rej   == {i \in 1..Len(cfg.custom_validators) :
                         ~Validate(cfg.custom_validators[i], r).ok}
        IN  /\ long => verdict.reason = Reason("Too long", Len(r))
            /\ (~long /\ short) => verdict.reason = Reason("Too short", Len(r))
            /\ (~long /\ ~short /\ blank) => verdict.reason = Reason("Empty response", 0)
            /\ (~long /\ ~short /\ ~blank /\ bad) =>
                  /\ verdict.reason.kind = "Failure pattern"
                  /\ HasPattern(r, verdict.reason.arg)
                  /\ \A p \in 1..(verdict.reason.arg - 1) : ~HasPattern(r, p)
            /\ (~long /\ ~short /\ ~blank /\ ~bad /\ rej # {}) =>
                  verdict.reason = Validate(cfg.custom_validators[Min(rej)], r).reason
            /\ (long \/ short \/ blank \/ bad \/ rej # {}) <=> verdict.flagged

\* C20 as stated: the reason is that of the first failing check, and the
\* empty string is reported with the empty-content reason.
C20_EmptyStringIsEmptyResponse ==
    /\ FirstFailingCheck
    /\ (pc = "filtered" /\ response = <<>>) => verdict.reason.kind = "Empty response"

\* C20, amended: the reason is that of the first failing check; the empty
\* string is reported as too short when min_response_length >= 1 and with
\* the empty-content reason only when min_response_length <= 0.
C20_EmptyStringIsTooShortFirst ==
    /\ FirstFailingCheck
    /\ (pc = "filtered" /\ response = <<>> /\ cfg.min_response_length >= 1) =>
          verdict.reason = Reason("Too short", 0)
    /\ (pc = "filtered" /\ response = <<>> /\ cfg.min_response_length <= 0) =>
          verdict.reason = Reason("Empty response", 0)

\* The empty string under the default min_response_length.
C20_Witness ==
    /\ pc = "filtered"
    /\ response = <<>>
    /\ cfg.min_response_length = 1
    /\ cfg.max_response_length = 300
    /\ verdict.flagged
    /\ verdict.reason = Reason("Too short", 0)

\* Every built-in check of should_flag passes on the response.
BuiltInsPass ==
    /\ cfg.min_response_length <= Len(response)
    /\ Len(response) <= cfg.max_response_length
    /\ NonBlank(response)
    /\ ~HasFailurePhrase(response)

\* C21: the custom validators are called, in their configured order, only
\* when every built-in check passes; the calls stop at the first validator
\* that rejects, whose reason is returned; when none rejects all are called.
C21_ValidatorsShortCircuit ==
    pc = "filtered" =>
        LET vs  == cfg.custom_validators
            rej == {i \in 1..Len(vs) : ~Validate(vs[i], response).ok}
        IN  /\ ~BuiltInsPass => verdict.called = 0
            /\ (BuiltInsPass /\ rej # {}) =>
                  /\ verdict.called \in rej
                  /\ \A i \in 1..(verdict.called - 1) : i \notin rej
                  /\ verdict.flagged
                  /\ verdict.reason = Validate(vs[verdict.called], response).reason
            /\ (BuiltInsPass /\ rej = {}) =>
                  /\ verdict.called = Len(vs)
                  /\ ~verdict.flagged

\* Two validators would reject, for different reasons: only the first is called.
C21_Witness ==
    /\ pc = "filtered"
    /\ BuiltInsPass
    /\ Len(cfg.custom_validators) = 2
    /\ ~Validate(cfg.custom_validators[1], response).ok
    /\ ~Validate(cfg.custom_validators[2], response).ok
    /\ Validate(cfg.custom_validators[1], response).reason
          # Validate(cfg.custom_validators[2], response).reason
    /\ verdict.called = 1
    /\ verdict.flagged

\* C22: one agent issues at most max_resamples completion calls, one per
\* attempt (attempt counts the calls it has made); every call either is
\* discarded and followed by the next attempt, or gives an action of
\* get_possible_actions() that the agent returns at once, or is the discarded
\* last attempt, after which the agent returns None.
C22_AgentStopsAtFirstUsableVote ==
    [][pc = "vote" =>
         /\ attempt < cfg.max_resamples
         /\ \/ /\ attempt' = attempt + 1
               /\ attempt' < cfg.max_resamples
               /\ audit'.discards = audit.discards + 1
               /\ pc' = "vote"
               /\ UNCHANGED <<log, votes, agents_sampled>>
            \/ /\ attempt' = 0
               /\ audit'.discards = audit.discards
               /\ \E a \in get_possible_actions : log' = Append(log, a)
            \/ /\ attempt' = 0
               /\ attempt + 1 = cfg.max_resamples
               /\ audit'.discards = audit.discards + 1
               /\ log' = log
    ]_vars

\* The first agent of the run had its first attempt discarded and returned
\* the action of its second attempt.
C22_Witness ==
    /\ audit.on
    /\ audit.rounds = 1
    /\ audit.agents = 1
    /\ audit.discards = 1
    /\ Len(log) = 1
    /\ attempt = 0
    /\ cfg.max_resamples >= 2

\* C23: a completion call that raises leaves the engine inside the round
\* (nothing propagates out of get_vote, vote or solve); the attempt is one
\* discard: no vote is cast, no response is flagged, and the agent goes on to
\* its next attempt, or returns None when that was its last.
C23_CompletionErrorIsADiscard ==
    [][CompletionRaises =>
         /\ pc' \in {"vote", "apply"}
         /\ votes' = votes
         /\ log' = log
         /\ audit'.discards = audit.discards + 1
         /\ audit'.flags = audit.flags
         /\ IF attempt + 1 < cfg.max_resamples
            THEN /\ attempt' = attempt + 1
                 /\ pc' = "vote"
                 /\ agents_sampled' = agents_sampled
                 /\ audit'.last = "error"
            ELSE /\ attempt' = 0
                 /\ agents_sampled' = agents_sampled + 1
    ]_vars

\* An agent is about to make its second call after its first one raised.
C23_Witness ==
    /\ pc = "vote"
    /\ attempt = 1
    /\ audit.last = "error"
    /\ audit.discards = 1
    /\ audit.flags = 0

\* C24: when the agent being sampled returns None (its last attempt is
\* discarded), the tally is unchanged and no failure is recorded; the round
\* goes on with the next agent while the cap is not reached, and otherwise
\* ends with the fallback over the votes cast so far.
C24_ExhaustedAgentCastsNoVote ==
    [][(pc = "vote" /\ log' = log /\ agents_sampled' = agents_sampled + 1) =>
         /\ attempt + 1 = cfg.max_resamples
         /\ votes' = votes
         /\ stats' = stats
         /\ (agents_sampled + 1 < Cap) => (pc' = "vote" /\ attempt' = 0)
         /\ (agents_sampled + 1 >= Cap) =>
               /\ pc' = "apply"
               /\ (votes # <<>>) => (action' \in Voted(votes))
               /\ (votes = <<>>) => (action' = None)
    ]_vars

\* Of two agents sampled, one returned None and one voted; the round goes on.
C24_Witness ==
    /\ pc = "vote"
    /\ attempt = 0
    /\ agents_sampled = 2
    /\ created = 2
    /\ Len(log) = 1
    /\ TotalVotes(votes) = 1
    /\ stats.failed_steps = 0

\* The lead of the tally: the highest count minus the next count (0 on a tie,
\* the highest count itself when one action only has votes).
LeadOf(v) ==
    IF v = <<>> \/ Cardinality(Tied(v)) > 1 THEN 0
    ELSE TopCount(v) - Max({CountOf(v, a) : a \in Voted(v) \ Tied(v)} \cup {0})

\* C29: when the round ends by the margin rule, the returned leader is the
\* action of the most recent vote and no other action has as many votes.
C29_MarginLeaderIsLastVote ==
    ReturnedInLoop =>
        /\ cfg.k >= 1
        /\ log # <<>>
        /\ action = log[Len(log)]
        /\ \A a \in Voted(votes) \ {action} : CountOf(votes, a) < CountOf(votes, action)

\* The margin rule fires on the fourth vote, for the action just voted,
\* with another action in the tally.
C29_Witness ==
    /\ ReturnedInLoop
    /\ cfg.k = 2
    /\ Len(log) = 4
    /\ Cardinality(Voted(votes)) = 2
    /\ action = log[4]
    /\ CountOf(votes, action) = 3

\* C30: while a round samples agents no tally of it has a lead of k (the rule
\* was evaluated after every tally update); the rule fires on a vote (a
\* tally update), the agent that cast it is the last one created, and no
\* agent is created and no completion call made until the next step begins.
C30_MarginEndsSampling ==
    /\ (pc = "vote") => (LeadOf(votes) < cfg.k)
    /\ ReturnedInLoop =>
          /\ LeadOf(votes) >= cfg.k
          /\ TotalVotes(votes) = Len(log)
          /\ created = agents_sampled + 1
    /\ (pc \in {"loop", "check", "done"} /\ step >= 1 /\ ~LastRoundHitCap) =>
          created = agents_sampled + 1

\* The margin rule fired in a round whose cap allowed two more agents.
C30_Witness ==
    /\ pc = "done"
    /\ step = 1
    /\ ~LastRoundHitCap
    /\ created = 2
    /\ agents_sampled = 1
    /\ Cap = 4
    /\ LeadOf(votes) = cfg.k

\* The response holds failure pattern number p of the Hanoi filter, in any
\* letter case.
HasHanoiPattern(r, p) ==
    \E i \in 1..(Len(r) - Len(hanoi_failure_patterns[p]) + 1) :
        \A j \in 1..Len(hanoi_failure_patterns[p]) :
            SameLetter(r[i + j - 1], hanoi_failure_patterns[p][j])

\* The configuration and the responses of test_red_flagging.
TestFlagConfig == [max_response_length |-> 100, min_response_length |-> 1]

TestAccepted == {
    <<"A", "-", ">", "B">>,
    <<"A", " ", "t", "o", " ", "B">>,
    <<"A", "B">> }

TestFlagged == {
    <<>>,
    [i \in 1..300 |-> "X"],
    <<"I", " ", "d", "o", "n", "'", "t", " ", "k", "n", "o", "w", " ",
      "t", "h", "e", " ", "a", "n", "s", "w", "e", "r">> }

\* C25: the Hanoi filter accepts a response if and only if its length is
\* within [min_response_length, max_response_length], it is not blank, it
\* holds no failure phrase in any letter case, it holds one of the letters
\* A, B, C in any case, and it has at most 5 newlines; it accepts "A->B",
\* "A to B" and "AB", and flags "", 300 characters under a maximum of 100,
\* and "I don't know the answer".
C25_HanoiFilterAcceptsIff ==
    pc = "hanoi_filtered" =>
        /\ ~verdict.flagged <=>
              /\ cfg.min_response_length <= Len(response)
              /\ Len(response) <= cfg.max_response_length
              /\ NonBlank(response)
              /\ \A p \in 1..Len(hanoi_failure_patterns) : ~HasHanoiPattern(response, p)
              /\ \E i \in 1..Len(response) :
                    response[i] \in {"A", "B", "C", "a", "b", "c"}
              /\ Cardinality({i \in 1..Len(response) : response[i] = "\n"}) <= 5
        /\ \A r \in TestAccepted : ~hanoi_should_flag(r, TestFlagConfig).flagged
        /\ \A r \in TestFlagged : hanoi_should_flag(r, TestFlagConfig).flagged

\* A response whose only peg letter is a lower-case c is accepted.
C25_Witness ==
    /\ pc = "hanoi_filtered"
    /\ ~verdict.flagged
    /\ \A i \in 1..Len(response) : response[i] \notin {"A", "B", "C"}
    /\ \E i \in 1..Len(response) : response[i] = "c"

\* The move (f, t) is not legal on the pegs s, in the words of the claim: a
\* peg is unknown, the source peg is empty, or the top disk of the source is
\* larger than the top disk of the destination.
NotLegal(s, f, t) ==
    \/ f \notin PegNames
    \/ t \notin PegNames
    \/ /\ f \in PegNames /\ t \in PegNames
       /\ \/ Len(s[f]) = 0
          \/ Len(s[f]) > 0 /\ Len(s[t]) > 0 /\ s[f][Len(s[f])] > s[t][Len(s[t])]

\* From the pegs s to the pegs s2, exactly the top disk of peg f went onto
\* peg t.
TopDiskMoved(s, s2, f, t) ==
    /\ f \in PegNames /\ t \in PegNames /\ f # t
    /\ Len(s[f]) > 0
    /\ s2[f] = [i \in 1..(Len(s[f]) - 1) |-> s[f][i]]
    /\ s2[t] = [i \in 1..(Len(s[t]) + 1) |->
                   IF i <= Len(s[t]) THEN s[t][i] ELSE s[f][Len(s[f])]]
    /\ \A p \in PegNames \ {f, t} : s2[p] = s[p]

\* C28: apply_move returns False and leaves every peg unchanged when the move
\* is not legal (unknown peg, empty source peg, or the top disk of the source
\* larger than the top disk of the destination); when it returns True it
\* moves exactly the top disk of the source peg onto the destination peg and
\* changes nothing else.
C28_ApplyMoveFrame ==
    [][pc = "game" =>
        /\ num_disks' = num_disks
        /\ NotLegal(pegs, move'[1], move'[2]) => ~returned' /\ pegs' = pegs
        /\ returned' => TopDiskMoved(pegs, pegs', move'[1], move'[2])]_vars

\* After some moves were applied, a move that would put a larger disk on a
\* smaller one was refused.
C28_Witness ==
    /\ pc = "game"
    /\ pegs # GameState(num_disks)
    /\ move # NoMove
    /\ ~returned
    /\ move[1] \in PegNames /\ move[2] \in PegNames
    /\ pegs[move[1]] # <<>> /\ pegs[move[2]] # <<>>
    /\ Top(pegs[move[1]]) > Top(pegs[move[2]])

\* The pegs as the place of each disk; a move takes the smallest disk of its
\* source peg.
DisksOn(w, p) == {d \in DOMAIN w : w[d] = p}

LegalAt(w, m) ==
    /\ m[1] \in PegNames /\ m[2] \in PegNames
    /\ DisksOn(w, m[1]) # {}
    /\ \A d \in DisksOn(w, m[2]) : Min(DisksOn(w, m[1])) < d

\* Playing ms from move i on, from the places w: whether some move is not
\* legal in the state reached before it, and otherwise whether every disk
\* ends on the target peg.
RECURSIVE Played(_, _, _)
Played(w, ms, i) ==
    IF i > Len(ms) THEN [illegal |-> FALSE, on_target |-> \A d \in DOMAIN w : w[d] = "C"]
    ELSE IF ~LegalAt(w, ms[i]) THEN [illegal |-> TRUE, on_target |-> FALSE]
    ELSE Played([w EXCEPT ![Min(DisksOn(w, ms[i][1]))] = ms[i][2]], ms, i + 1)

PlayedFromStart(n, ms) == Played([d \in 1..n |-> "A"], ms, 1)

\* Some move of ms is not legal in the state reached before it.
HasIllegalMove(n, ms) == PlayedFromStart(n, ms).illegal

\* Every move of ms is legal and after ms every disk is on the target peg.
EndsOnTarget(n, ms) == PlayedFromStart(n, ms).on_target

\* C26: for every n >= 1 get_optimal_solution(n) has 2^n - 1 moves and
\* verify_solution accepts it; verify_solution rejects every move list with a
\* move that is illegal in the state reached so far (such as [A->B, A->B] for
\* 4 disks) and every legal list that does not end with all disks on the
\* target peg.
C26_OptimalVerifiesOthersRejected ==
    /\ ~verify_solution(4, << <<"A", "B">>, <<"A", "B">> >>)
    /\ pc = "verified" =>
          /\ Len(get_optimal_solution(num_disks)) = 2^num_disks - 1
          /\ moves = get_optimal_solution(num_disks) => returned
          /\ HasIllegalMove(num_disks, moves) => ~returned
          /\ ~HasIllegalMove(num_disks, moves) /\ ~EndsOnTarget(num_disks, moves)
                => ~returned

\* A list of legal moves as long as the optimal solution, but not the optimal
\* solution, was rejected because it ends elsewhere.
C26_Witness ==
    /\ pc = "verified"
    /\ num_disks >= 2
    /\ Len(moves) = 2^num_disks - 1
    /\ moves # get_optimal_solution(num_disks)
    /\ ~HasIllegalMove(num_disks, moves)
    /\ ~returned

\* C27: with agents that always vote the optimal next move,
\* solve_towers_of_hanoi(n) returns success = True with exactly 2^n - 1 moves,
\* for every margin k in {1, 2, 3} and for the k that compute_k_for_steps gives
\* for 3, 4 and 5 disks.
C27_OptimalAgentsSolveOptimally ==
    /\ \A n \in {3, 4, 5} : compute_k_for_steps(2^n - 1) \in HanoiMargins(n)
    /\ (pc = "hanoi_done" /\ oracle = "optimal" /\ cfg.k \in HanoiMargins(num_disks))
          => success /\ Len(moves) = 2^num_disks - 1

\* Three disks were solved in seven moves under the margin computed for them.
C27_Witness ==
    /\ pc = "hanoi_done"
    /\ oracle = "optimal"
    /\ num_disks = 3
    /\ cfg.k = compute_k_for_steps(7)
    /\ success
    /\ Len(moves) = 7
    /\ stats.total_steps = 7

\* C31: during a voting round the engine never calls apply_action, so the
\* task state when the round ends is the task state when it began;
\* apply_action is called only by the solver loop, at most once per step.
C31_OnlyTheLoopAppliesOncePerStep ==
    [][/\ pc = "vote" => tstate' = tstate
       /\ pc = "loop" /\ pc' = "vote" => tstate' = tstate
       /\ tstate' # tstate =>
            /\ pc = "apply" /\ pc' = "loop"
            /\ tstate' = apply_action(action)
            /\ step' = step
            /\ Len(tstate.applied) = step - 1]_vars

\* A round of a later step ended after two agents voted, and the task state is
\* still the one the step began with.
C31_Witness ==
    /\ pc = "apply"
    /\ step >= 2
    /\ Len(log) >= 2
    /\ action # None
    /\ Len(tstate.applied) = step - 1
    /\ pollSet = get_possible_actions

\* C32: a task that becomes complete exactly on step 3 x estimate_steps(), the
\* last step the safety limit allows, is reported by solve as success when
\* validate_solution() accepts, not as a step-limit failure.
C32_CompleteOnLastAllowedStep ==
    (/\ pc = "done"
     /\ max_steps = 3 * estimate_steps
     /\ step = max_steps
     /\ Len(action_history) = max_steps
     /\ is_complete
     /\ is_valid)
        => success

\* The third action of a task with estimate 1 completed it, and the solution
\* was accepted.
C32_Witness ==
    /\ pc = "done"
    /\ estimate_steps = 1
    /\ step = 3
    /\ max_steps = 3
    /\ Len(action_history) = 3
    /\ task.goal = 3
    /\ is_complete
    /\ is_valid
    /\ success

\* C33: runs share no state and the configuration is not modified by a run:
\* when solvers are built one after the other from the same MAKERConfig with
\* k left to auto-compute, the margin each solver uses depends only on the
\* estimate_steps() of its own task: it is the one the schedule gives for it.
C33_MarginFromOwnTaskOnly ==
    (pc = "build" /\ given_k = KNone) =>
        \A i \in 1..Len(solvers) :
            MarginUsed(solvers[i]) = compute_k(solvers[i].task.est)

\* The second solver was built for a task whose estimate asks for another
\* margin than the first one's.
C33_Witness ==
    /\ pc = "build"
    /\ given_k = KNone
    /\ Len(solvers) = 2
    /\ solvers[1].task.est = 5
    /\ solvers[2].task.est = 500
    /\ MarginUsed(solvers[2]) = 2

\* What solve returns: (success, action_history, stats).
SolveReturns == <<success, action_history, stats>>

\* What solve returns when vote() returns None at step n after the history h
\* (lines 316-319 and 345-347): stats as __init__ made them, with step n
\* counted and one failed step.
NoConsensusReturn(n, h) ==
    <<FALSE, h,
      [total_steps |-> n, total_agents |-> 0, failed_steps |-> 1, red_flags |-> 0]>>

\* NoConsensusReturn is what the solver machine returns in that case.
NoConsensusReturn_Agrees ==
    (pc = "done" /\ EndedNoConsensus) => SolveReturns = NoConsensusReturn(step, action_history)

\* C34: what solve returns for a failure by action rejection at step N differs
\* from what it returns for a failure by no consensus at the same step N with
\* the same history, so that a caller can tell the two failures apart.
C34_RejectionDiffersFromNoConsensus ==
    (pc = "done" /\ EndedRejected) => SolveReturns # NoConsensusReturn(step, action_history)

\* A run failed by rejection at step 2, after one applied action.
C34_Witness ==
    /\ pc = "done"
    /\ EndedRejected
    /\ step = 2
    /\ Len(action_history) = 1
    /\ action \in pollSet
    /\ SolveReturns = NoConsensusReturn(2, action_history)

\* A run failed by no consensus at step 2, after one applied action.
C34_NoConsensusTwin ==
    /\ pc = "done"
    /\ EndedNoConsensus
    /\ step = 2
    /\ Len(action_history) = 1
    /\ SolveReturns = NoConsensusReturn(2, action_history)

\* C35: on every sequence of agent results and for every k, vote_on_move and
\* vote with max_agents_per_vote = 50 return after the same number of sampled
\* agents, with the same winner.
C35_HanoiVoteIsGeneralVote ==
    pc = "both" =>
        /\ resA.returned = resB.returned
        /\ resA.agents_sampled = resB.agents_sampled
        /\ Len(resA.votes) = Len(resB.votes)
        /\ \A i \in 1..Len(resA.votes) :
              /\ resA.votes[i].action = AsMove(resB.votes[i].action)
              /\ resA.votes[i].count = resB.votes[i].count
        /\ resA.move = AsMove(resB.leader)

\* Both rounds used all 50 agents and returned the first inserted of two
\* tied moves.
C35_Witness ==
    /\ pc = "both"
    /\ resA.returned /\ resB.returned
    /\ resA.agents_sampled = max_agents
    /\ Len(resA.votes) >= 2
    /\ resA.votes[1].count = resA.votes[2].count
    /\ resA.move = resA.votes[1].action
    /\ resB.leader # None

\* The places (peg, height) at which disk d lies on the pegs s.
PlacesOf(s, d) == {pl \in PegNames \X (1..MaxDisks + 1) :
                      pl[2] <= Len(s[pl[1]]) /\ s[pl[1]][pl[2]] = d}

\* Peg p of s is strictly decreasing from the bottom to the top.
StrictlyDecreasing(s, p) ==
    \A i \in 1..Len(s[p]) : \A j \in 1..Len(s[p]) : i < j => s[p][i] > s[p][j]

\* C36: in every state reached from GameState(n) by any sequence of apply_move
\* calls, legal or not, the three pegs together hold each disk 1..n exactly
\* once and every peg is strictly decreasing from the bottom to the top.
C36_DisksConservedAndOrdered ==
    pc = "game" =>
        /\ DOMAIN pegs = PegNames
        /\ \A d \in 1..num_disks : Cardinality(PlacesOf(pegs, d)) = 1
        /\ Len(pegs["A"]) + Len(pegs["B"]) + Len(pegs["C"]) = num_disks
        /\ \A p \in PegNames : StrictlyDecreasing(pegs, p)

\* Three or more disks are spread over all three pegs, and the last call, which
\* would have put a larger disk on a smaller one, was refused.
C36_Witness ==
    /\ pc = "game"
    /\ num_disks >= 3
    /\ \A p \in PegNames : pegs[p] # <<>>
    /\ move # NoMove
    /\ move[1] \in PegNames /\ move[2] \in PegNames
    /\ Top(pegs[move[1]]) > Top(pegs[move[2]])
    /\ ~returned
    /\ \E p \in PegNames : Len(pegs[p]) >= 2

\* The run of solve_towers_of_hanoi ended at a step whose vote was None.
EndedNoMove == pc = "hanoi_done" /\ move = NoMove /\ stats.failed_steps = 1

\* C37: solve_towers_of_hanoi(n) returns success = True only if replaying the
\* returned move list from the initial n-disk state is legal at every move and
\* ends with all disks on the target peg; it runs at most 2 x (2^n - 1) steps,
\* and it returns success = False at the first step whose vote is None or
\* whose move is rejected.
C37_SuccessOnlyIfReplayVerifies ==
    /\ pc \in {"hanoi_loop", "hanoi_vote", "hanoi_apply", "hanoi_done"} =>
          /\ step <= 2 * (2^num_disks - 1)
          /\ stats.total_steps = step
          /\ stats.failed_steps = 0 => Len(moves) \in {step - 1, step}
    /\ (pc = "hanoi_done" /\ success) =>
          /\ ~HasIllegalMove(num_disks, moves)
          /\ EndsOnTarget(num_disks, moves)
          /\ stats.failed_steps = 0
    /\ stats.failed_steps > 0 =>
          /\ pc = "hanoi_done"
          /\ ~success
          /\ stats.failed_steps = 1
          /\ move = NoMove \/ ~returned
          /\ Len(moves) = step - 1

\* After some applied moves every agent answered nothing usable for a whole
\* round, and the run returned success = False at that step.
C37_Witness ==
    /\ EndedNoMove
    /\ ~success
    /\ step >= 2
    /\ num_disks = 1
    /\ Len(moves) = step - 1
    /\ agents_sampled = max_agents

\* A run that solved the puzzle in more moves than the optimal solution.
C37_LongerSolution ==
    /\ pc = "hanoi_done"
    /\ success
    /\ Len(moves) > 2^num_disks - 1

\* build_order lists each built module exactly once.
ListsBuiltOnce(s) ==
    /\ Elements(s.build_order) = s.built
    /\ \A i \in 1..Len(s.build_order) : \A j \in 1..Len(s.build_order) :
          s.build_order[i] = s.build_order[j] => i = j

\* Each module of build_order appears after all of its dependencies.
AfterDependencies(t, s) ==
    \A i \in 1..Len(s.build_order) :
        \A d \in Elements(t.dependencies[s.build_order[i]]) :
            \E j \in 1..(i - 1) : s.build_order[j] = d

\* C38: in every state of a DependencyResolutionTask reached by any sequence
\* of apply_action calls, build_order lists each built module exactly once and
\* each module appears after all of its dependencies; hence whenever
\* is_complete() is true validate_solution() accepts; and a rejected
\* apply_action leaves built and build_order unchanged.
C38_BuildOrderRespectsDependencies ==
    /\ [](pc = "task" =>
            /\ ListsBuiltOnce(tstate)
            /\ AfterDependencies(task, tstate)
            /\ is_complete_build(task, tstate) => validate_solution_build(task, tstate))
    /\ [][pc = "task" /\ ~returned' => tstate' = tstate]_vars

\* Three modules are built, the last of them after its two dependencies, the
\* solution validates, and a further call for a built module was rejected.
C38_Witness ==
    /\ pc = "task"
    /\ Len(tstate.build_order) = 3
    /\ Len(task.dependencies[tstate.build_order[3]]) = 2
    /\ is_complete_build(task, tstate)
    /\ validate_solution_build(task, tstate)
    /\ action \in tstate.built
    /\ ~returned

\* Every action that get_possible_actions() returns is accepted by
\* apply_action in the same state.
PossibleAccepted(t, s) ==
    \A i \in 1..Len(buildable(t, s)) :
        apply_action_build(t, s, buildable(t, s)[i]).returned

\* What C39 says of a state of the task: some action is possible unless the
\* task is complete, the possible actions are accepted, and the task is
\* complete exactly after len(modules) successful calls.
NeverStuck(t, s, successful) ==
    /\ ~is_complete_build(t, s) => buildable(t, s) # <<>>
    /\ PossibleAccepted(t, s)
    /\ is_complete_build(t, s) <=> successful = Len(t.modules)

\* The modules are distinct and every dependency of a module is a module.
DependenciesAreModules(t) ==
    /\ Cardinality(Elements(t.modules)) = Len(t.modules)
    /\ \A i \in 1..Len(t.modules) :
          Elements(t.dependencies[t.modules[i]]) \subseteq Elements(t.modules)

\* C39, as stated: for every DependencyResolutionTask that its constructor
\* accepts, get_possible_actions() is non-empty whenever is_complete() is
\* false, every action it returns is accepted by apply_action, and
\* is_complete() becomes true after exactly len(modules) successful
\* apply_action calls.
C39_AcceptedTaskNeverStuck ==
    pc = "task" => NeverStuck(task, tstate, step)

\* C39, amended: the same for every accepted task whose modules are distinct
\* and whose dependencies are all modules of the task.
C39_ClosedTaskNeverStuck ==
    (pc = "task" /\ DependenciesAreModules(task)) => NeverStuck(task, tstate, step)

\* A task of three modules, one of them with two dependencies, is complete
\* after three accepted actions.
C39_Witness ==
    /\ pc = "task"
    /\ DependenciesAreModules(task)
    /\ Len(task.modules) = 3
    /\ \E m \in Elements(task.modules) : Len(task.dependencies[m]) = 2
    /\ step = 3
    /\ returned
    /\ is_complete_build(task, tstate)
    /\ buildable(task, tstate) = <<>>

\* An accepted task that is stuck from the start: its only module depends on
\* a name that is no module.
C39_StuckOnMissingDependency ==
    /\ pc = "task"
    /\ Len(task.modules) = 1
    /\ Cardinality(Elements(task.modules)) = Len(task.modules)
    /\ tstate = NothingBuilt
    /\ ~is_complete_build(task, tstate)
    /\ buildable(task, tstate) = <<>>

TypeOK ==
    /\ pc \in {"start", "loop", "vote", "apply", "check", "done", "replay", "replayed",
               "construct", "constructed", "filter", "filtered",
               "hanoi_filter", "hanoi_filtered", "game", "verify", "verified",
               "hanoi_start", "hanoi_loop", "hanoi_vote", "hanoi_apply", "hanoi_done",
               "build", "both", "new_task", "task", "value_error"}
    /\ step \in 0..Max({MaxSteps(MaxEst), expected_moves(MaxDisks) * 2})
    /\ action \in Actions \cup {None} \cup ModuleNames \cup {NotBuildAction}
    /\ agents_sampled \in 0..Max({MaxAgents, max_agents})
    /\ attempt \in 0..MaxResamples
    /\ num_disks \in 0..MaxDisks
    /\ returned \in BOOLEAN
    /\ move \in {NoMove} \cup GivenMoves
    /\ \A p \in PegNames : \A i \in 1..(Len(pegs[p]) - 1) : pegs[p][i] > pegs[p][i + 1]
    /\ pc \in {"game", "hanoi_loop", "hanoi_vote", "hanoi_apply", "hanoi_done"}
          => Len(pegs["A"]) + Len(pegs["B"]) + Len(pegs["C"]) = num_disks

====
